---- MODULE Spec2Model ----
(***************************************************************************)
(* Multi-timeframe momentum engine: the TTL/LRU ResultCache and the        *)
(* MultiTimeframeAnalyzer that fetches, caches and combines per-timeframe  *)
(* results.                                                                *)
(*                                                                         *)
(* Strings that the code concatenates or prefix-tests (symbols, cache      *)
(* keys) are sequences of one-character strings; timeframe tokens are      *)
(* strings, spelled out by TfText where they enter a key.                  *)
(* Time is in milliseconds; TTL multipliers are stored in halves (the      *)
(* smallest multiplier of the code is 0.5).                                *)
(***************************************************************************)
EXTENDS Integers, Sequences, FiniteSets, TLC

VARIABLES
    now,          \* Date.now()
    config,       \* ResultCache.config
    cache,        \* ResultCache.cache: key -> CacheEntry
    accessOrder,  \* ResultCache.accessOrder
    lastOp,       \* the last public cache operation, its arguments and its return value
    lastUse,      \* history: rank of each stored key's most recent set or get-hit
    mtfConfig,    \* MultiTimeframeAnalyzer.config
    calls,        \* the analyze / analyzeSingle calls: where each stands and its locals
    fetches,      \* the data provider's getCandles calls that have not settled, counted per key
    served        \* history: per key, when a call last returned a result it had fetched for it

cacheVars == <<config, cache, accessOrder>>

obsVars == <<lastOp, lastUse>>

mtfVars == <<mtfConfig, calls, fetches, served>>

vars == <<now, config, cache, accessOrder, lastOp, lastUse, mtfConfig, calls, fetches, served>>

(***************************************************************************)
(* Bounds                                                                  *)
(***************************************************************************)
MaxTime == 2
MaxEntriesBound == 2
TtlUnit == 1
MaxBatch == 2
NumCalls == 2
MaxRequest == 2
MaxOverlap == 1
MaxConcurrencyBound == 2
MaxCandles == 5
MaxResults == 3

(***************************************************************************)
(* types/timeframe.ts                                                      *)
(***************************************************************************)
TIMEFRAMES == <<"1m", "5m", "15m", "1h", "4h", "1d">>

isValidTimeframe(value) == \E i \in 1..Len(TIMEFRAMES) : TIMEFRAMES[i] = value

TfText(timeframe) ==
    CASE timeframe = "1m"  -> <<"1", "m">>
      [] timeframe = "5m"  -> <<"5", "m">>
      [] timeframe = "15m" -> <<"1", "5", "m">>
      [] timeframe = "1h"  -> <<"1", "h">>
      [] timeframe = "4h"  -> <<"4", "h">>
      [] timeframe = "1d"  -> <<"1", "d">>
      [] timeframe = "2m"  -> <<"2", "m">>
      [] timeframe = "1w"  -> <<"1", "w">>

(***************************************************************************)
(* cache/result-cache.ts                                                   *)
(***************************************************************************)
Null == [null |-> TRUE]
\* an omitted optional argument
Undefined == "undefined"

\* DEFAULT_CONFIG.timeframeTtlMultiplier, in halves
DefaultTtlMultiplier ==
    [tf \in {"1m", "5m", "15m", "1h", "4h", "1d"} |->
        CASE tf = "1m" -> 1 [] tf = "5m" -> 2 [] tf = "15m" -> 4
          [] tf = "1h" -> 8 [] tf = "4h" -> 16 [] tf = "1d" -> 48]

\* a caller's table that configures one timeframe only (x0.5), in halves
PartialTtlMultiplier == [tf \in {"5m"} |-> 1]

\* new ResultCache(config): { ...DEFAULT_CONFIG, ...config }
CacheConfigs ==
    [defaultTtlMs : {2 * TtlUnit},
     maxEntries : 1..MaxEntriesBound,
     timeframeTtlMultiplier : {DefaultTtlMultiplier, PartialTtlMultiplier}]

EmptyCache == [k \in {} |-> Null]

MapDelete(map, key) == [k \in (DOMAIN map) \ {key} |-> map[k]]

MapSet(map, key, value) == [k \in (DOMAIN map) \cup {key} |-> IF k = key THEN value ELSE map[k]]

\* the key names the symbol only
generateKeySymbolOnly(symbol, timeframe) == symbol \o <<":">>

generateKey(symbol, timeframe) == symbol \o <<":">> \o TfText(timeframe)

getTtl(timeframe) ==
    LET multiplier == IF timeframe \in DOMAIN config.timeframeTtlMultiplier
                      THEN config.timeframeTtlMultiplier[timeframe]
                      ELSE 2
    IN (config.defaultTtlMs * multiplier) \div 2

isExpiredGe(entry) == now >= entry.expiresAt

isExpired(entry) == now > entry.expiresAt

\* Array.prototype.indexOf, 1-based; 0 when absent
IndexOf(seq, key) ==
    IF \E i \in 1..Len(seq) : seq[i] = key
    THEN CHOOSE i \in 1..Len(seq) : seq[i] = key /\ \A j \in 1..(i - 1) : seq[j] # key
    ELSE 0

\* const index = indexOf(key); if (index > -1) splice(index, 1)
SpliceKey(seq, key) ==
    LET index == IndexOf(seq, key)
    IN IF index > 0 THEN SubSeq(seq, 1, index - 1) \o SubSeq(seq, index + 1, Len(seq)) ELSE seq

RECURSIVE evictIfNeededGt(_)
evictIfNeededGt(c) ==
    IF Cardinality(DOMAIN c.cache) > config.maxEntries /\ Len(c.accessOrder) > 0
    THEN LET oldestKey == Head(c.accessOrder)
         IN evictIfNeededGt([cache |-> IF oldestKey # <<>> THEN MapDelete(c.cache, oldestKey) ELSE c.cache,
                             accessOrder |-> Tail(c.accessOrder)])
    ELSE c

\* eviction that takes an expired entry first when one is stored
RECURSIVE evictIfNeededExpiredFirst(_)
evictIfNeededExpiredFirst(c) ==
    IF Cardinality(DOMAIN c.cache) >= config.maxEntries /\ Len(c.accessOrder) > 0
    THEN LET expired == SelectSeq(c.accessOrder, LAMBDA key : key \in DOMAIN c.cache /\ isExpired(c.cache[key]))
             oldestKey == IF expired # <<>> THEN Head(expired) ELSE Head(c.accessOrder)
         IN evictIfNeededExpiredFirst([cache |-> MapDelete(c.cache, oldestKey),
                                       accessOrder |-> SpliceKey(c.accessOrder, oldestKey)])
    ELSE c

RECURSIVE evictIfNeeded(_)
evictIfNeeded(c) ==
    IF Cardinality(DOMAIN c.cache) >= config.maxEntries /\ Len(c.accessOrder) > 0
    THEN LET oldestKey == Head(c.accessOrder)
         IN evictIfNeeded([cache |-> IF oldestKey # <<>> THEN MapDelete(c.cache, oldestKey) ELSE c.cache,
                           accessOrder |-> Tail(c.accessOrder)])
    ELSE c

updateAccessOrderKeep(order, key) == IF IndexOf(order, key) > 0 THEN order ELSE Append(order, key)

updateAccessOrder(order, key) == Append(SpliceKey(order, key), key)

\* the expired branch of get with the splice of accessOrder left out
dropExpiredMapOnly(c, key) == [cache |-> MapDelete(c.cache, key), accessOrder |-> c.accessOrder]

\* get, lines 61-65: delete the expired entry from the map and the recency list
dropExpired(c, key) == [cache |-> MapDelete(c.cache, key), accessOrder |-> SpliceKey(c.accessOrder, key)]

\* returns the cache after the call and the value returned
get(c, symbol, timeframe) ==
    LET key == generateKey(symbol, timeframe)
    IN IF key \notin DOMAIN c.cache
       THEN [c |-> c, ret |-> Null]
       ELSE IF isExpired(c.cache[key])
       THEN [c |-> dropExpired(c, key), ret |-> Null]
       ELSE [c |-> [cache |-> c.cache, accessOrder |-> updateAccessOrder(c.accessOrder, key)],
             ret |-> c.cache[key].data]

\* set that makes room only for a key that is not stored yet
setKeepsPresent(c, result) ==
    LET key == generateKey(result.symbol, result.timeframe)
        ttl == getTtl(result.timeframe)
        e == IF key \in DOMAIN c.cache THEN c ELSE evictIfNeeded(c)
    IN [cache |-> MapSet(e.cache, key, [data |-> result, timestamp |-> now, expiresAt |-> now + ttl]),
        accessOrder |-> updateAccessOrder(e.accessOrder, key)]

set(c, result) ==
    LET key == generateKey(result.symbol, result.timeframe)
        ttl == getTtl(result.timeframe)
        e == evictIfNeeded(c)
    IN [cache |-> MapSet(e.cache, key, [data |-> result, timestamp |-> now, expiresAt |-> now + ttl]),
        accessOrder |-> updateAccessOrder(e.accessOrder, key)]

RECURSIVE setMany(_, _)
setMany(c, results) ==
    IF results = <<>> THEN c ELSE setMany(set(c, Head(results)), Tail(results))

\* returns the cache after the call and the returned map as a sequence of values, one per timeframe
RECURSIVE getMany(_, _, _)
getMany(c, symbol, timeframes) ==
    IF timeframes = <<>> THEN [c |-> c, ret |-> <<>>]
    ELSE LET g == get(c, symbol, Head(timeframes))
             rest == getMany(g.c, symbol, Tail(timeframes))
         IN [c |-> rest.c, ret |-> <<g.ret>> \o rest.ret]

has(c, symbol, timeframe) ==
    LET g == get(c, symbol, timeframe) IN [c |-> g.c, ret |-> g.ret # Null]

\* String.prototype.startsWith
startsWith(str, prefix) == Len(str) >= Len(prefix) /\ SubSeq(str, 1, Len(prefix)) = prefix

\* for (const key of keysToDelete) { cache.delete(key); splice it from accessOrder }
RECURSIVE deleteKeys(_, _)
deleteKeys(c, keysToDelete) ==
    IF keysToDelete = {} THEN c
    ELSE LET key == CHOOSE k \in keysToDelete : TRUE
         IN deleteKeys([cache |-> MapDelete(c.cache, key), accessOrder |-> SpliceKey(c.accessOrder, key)],
                       keysToDelete \ {key})

invalidate(c, symbol, timeframe) ==
    IF timeframe # Undefined
    THEN LET key == generateKey(symbol, timeframe)
         IN [cache |-> MapDelete(c.cache, key), accessOrder |-> SpliceKey(c.accessOrder, key)]
    ELSE deleteKeys(c, {key \in DOMAIN c.cache : startsWith(key, symbol \o <<":">>)})

clear(c) == [cache |-> EmptyCache, accessOrder |-> <<>>]

stats(c) == [size |-> Cardinality(DOMAIN c.cache), maxEntries |-> config.maxEntries]

\* cleanup that also removes the entries expiring at this very millisecond
cleanupAtExpiry(c) ==
    LET keysToDelete == {key \in DOMAIN c.cache : now >= c.cache[key].expiresAt}
    IN [c |-> deleteKeys(c, keysToDelete), ret |-> Cardinality(keysToDelete)]

\* returns the cache after the call and the number of entries removed
cleanup(c) ==
    LET keysToDelete == {key \in DOMAIN c.cache : isExpired(c.cache[key])}
    IN [c |-> deleteKeys(c, keysToDelete), ret |-> Cardinality(keysToDelete)]


\* the ResultCache as it stands
C == [cache |-> cache, accessOrder |-> accessOrder]

(***************************************************************************)
(* Sequences                                                               *)
(***************************************************************************)
Range(seq) == {seq[i] : i \in 1..Len(seq)}

\* sequences over S of length 0..n
SeqsUpTo(S, n) == UNION {[1..k -> S] : k \in 0..n}

\* those without repetition
DistinctSeqsUpTo(S, n) == {q \in SeqsUpTo(S, n) : \A i, j \in 1..Len(q) : q[i] = q[j] => i = j}

(***************************************************************************)
(* analysis/momentum-analyzer.ts: the length precondition of analyze.      *)
(* A candle series is its length.                                          *)
(***************************************************************************)
macdSlow == 26
macdSignal == 9

\* returns the MomentumResult, or the AnalysisError thrown
MomentumAnalyzer_analyze(symbol, timeframe, candles) ==
    LET minCandles == macdSlow + macdSignal
    IN IF candles < minCandles
       THEN [threw |-> TRUE,
             error |-> [name |-> "AnalysisError", code |-> "INSUFFICIENT_DATA",
                        timeframe |-> timeframe, symbol |-> symbol]]
       ELSE [threw |-> FALSE,
             result |-> [symbol |-> symbol, timeframe |-> timeframe, timestamp |-> now]]

(***************************************************************************)
(* analysis/multi-timeframe-analyzer.ts                                    *)
(* A Map<Timeframe, MomentumResult> is the sequence of its values in       *)
(* insertion order, one per timeframe.                                     *)
(***************************************************************************)
DEFAULT_MTF_CONFIG == [defaultLookback |-> 100, maxConcurrency |-> 6]

\* Map.prototype.set: a key already present keeps its place
MapPut(map, result) ==
    IF \E i \in 1..Len(map) : map[i].timeframe = result.timeframe
    THEN [i \in 1..Len(map) |-> IF map[i].timeframe = result.timeframe THEN result ELSE map[i]]
    ELSE Append(map, result)

\* new Map([...entries])
RECURSIVE MapOf(_)
MapOf(entries) ==
    IF entries = <<>> THEN <<>> ELSE MapPut(MapOf(SubSeq(entries, 1, Len(entries) - 1)), entries[Len(entries)])

MapKeys(map) == {map[i].timeframe : i \in 1..Len(map)}

MapGet(map, timeframe) == map[CHOOSE i \in 1..Len(map) : map[i].timeframe = timeframe]

validateTimeframesAll(timeframes) == timeframes

\* only the first recognised timeframe is kept
validateTimeframesFirst(timeframes) ==
    LET valid == SelectSeq(timeframes, isValidTimeframe)
    IN IF valid = <<>> THEN <<>> ELSE <<Head(valid)>>

validateTimeframes(timeframes) == SelectSeq(timeframes, isValidTimeframe)

\* every timeframe is taken as missing, without a lookup
RECURSIVE checkCacheAllMiss(_, _, _)
checkCacheAllMiss(acc, symbol, timeframes) ==
    IF timeframes = <<>> THEN acc
    ELSE checkCacheAllMiss([c |-> acc.c, cached |-> acc.cached, missing |-> Append(acc.missing, Head(timeframes))],
                           symbol, Tail(timeframes))

\* acc: the cache, and the cached map and missing list built so far
RECURSIVE checkCache(_, _, _)
checkCache(acc, symbol, timeframes) ==
    IF timeframes = <<>> THEN acc
    ELSE LET g == get(acc.c, symbol, Head(timeframes))
         IN checkCache(
                IF g.ret # Null
                THEN [c |-> g.c, cached |-> MapPut(acc.cached, g.ret), missing |-> acc.missing]
                ELSE [c |-> g.c, cached |-> acc.cached, missing |-> Append(acc.missing, Head(timeframes))],
                symbol, Tail(timeframes))

\* only the first chunk is made
chunkArrayFirstOnly(n, chunkSize) ==
    [k \in 1..(IF n > 0 THEN 1 ELSE 0) |->
        [first |-> 1, last |-> IF chunkSize < n THEN chunkSize ELSE n]]

\* chunkArray: the index ranges of the chunks of an array of length n
chunkArray(n, chunkSize) ==
    [k \in 1..((n + chunkSize - 1) \div chunkSize) |->
        [first |-> (k - 1) * chunkSize + 1,
         last |-> IF k * chunkSize < n THEN k * chunkSize ELSE n]]

\* the body of one analysis promise once getCandles has settled (lines 190-204)
analysisPromise(symbol, timeframe, outcome) ==
    IF outcome.rejected
    THEN [timeframe |-> timeframe, result |-> Null, error |-> [name |-> "Error", code |-> "FETCH"]]
    ELSE LET a == MomentumAnalyzer_analyze(symbol, timeframe, outcome.candles)
         IN IF a.threw
            THEN [timeframe |-> timeframe, result |-> Null, error |-> a.error]
            ELSE [timeframe |-> timeframe, result |-> a.result, error |-> Null]

\* a chunk with a failed member yields nothing, as a rejected Promise.all would
collectChunkAllOrNothing(results, chunkResults) ==
    IF \E i \in 1..Len(chunkResults) : chunkResults[i].error # Null
    THEN results
    ELSE MapOf(results \o [i \in 1..Len(chunkResults) |-> chunkResults[i].result])

\* for (const { timeframe, result, error } of chunkResults) (lines 213-221)
RECURSIVE collectChunk(_, _)
collectChunk(results, chunkResults) ==
    IF chunkResults = <<>> THEN results
    ELSE LET r == Head(chunkResults)
         IN collectChunk(IF r.result # Null /\ r.error = Null THEN MapPut(results, r.result) ELSE results,
                         Tail(chunkResults))

(***************************************************************************)
(* ResultCache driven directly through its public operations               *)
(***************************************************************************)
CacheSymbols == {<<"B">>, <<"B", ":", "U">>}
CacheTimeframes == {"1m", "5m"}

\* a MomentumResult as the cache sees it (createMockResult)
MockResults == [symbol : CacheSymbols, timeframe : CacheTimeframes, timestamp : {now}]

EntryOf(key) == IF key \in DOMAIN cache THEN cache[key] ELSE Null

\* the observation recorded for one public operation; get, has and set record the
\* entry stored under their key before the call, set also the size and the keys of
\* the unexpired entries before the call
Op(name, args, ret, key) ==
    [op |-> name, args |-> args, ret |-> ret, pre |-> EntryOf(key),
     preSize |-> IF name = "set" THEN Cardinality(DOMAIN cache) ELSE 0,
     preLive |-> IF name = "set" THEN {k \in DOMAIN cache : ~isExpired(cache[k])} ELSE {}]

\* position of the last occurrence of key in seq; 0 when absent
LastIndexOf(seq, key) ==
    IF \E i \in 1..Len(seq) : seq[i] = key
    THEN CHOOSE i \in 1..Len(seq) : seq[i] = key /\ \A j \in (i + 1)..Len(seq) : seq[j] # key
    ELSE 0

(* history of use: `touched` are the keys an operation set or hit, in      *)
(* order; every stored key is ranked by its most recent set or get-hit     *)
(* (1 = least recently used)                                               *)
Used(use, touched, stored) ==
    LET n == Cardinality(DOMAIN use)
        stamp(x) == IF LastIndexOf(touched, x) > 0 THEN n + LastIndexOf(touched, x) ELSE use[x]
    IN [x \in stored |-> Cardinality({y \in stored : stamp(y) < stamp(x)}) + 1]

\* the keys of the hits of a getMany, in order
RECURSIVE HitKeys(_, _, _)
HitKeys(symbol, timeframes, rets) ==
    IF timeframes = <<>> THEN <<>>
    ELSE (IF Head(rets) # Null THEN <<generateKey(symbol, Head(timeframes))>> ELSE <<>>)
         \o HitKeys(symbol, Tail(timeframes), Tail(rets))

\* one step of the cache: the cache after the call, what was observed, the keys set or hit
CacheStep(after, o, touched) ==
    \E a \in {after} :
        /\ cache' = a.cache
        /\ accessOrder' = a.accessOrder
        /\ lastOp' = o
        /\ lastUse' = Used(lastUse, touched, DOMAIN a.cache)
        /\ UNCHANGED <<now, config, mtfVars>>

\* the results of one symbol for the timeframes given, as analyze hands them to setMany
BatchResults(symbol, timeframes) ==
    [i \in 1..Len(timeframes) |-> [symbol |-> symbol, timeframe |-> timeframes[i], timestamp |-> now]]

SetOp ==
    \E result \in MockResults :
        LET key == generateKey(result.symbol, result.timeframe)
        IN CacheStep(set(C, result), Op("set", result, Null, key), <<key>>)

\* the batch operations are observed by name only
SetManyOp ==
    \E symbol \in CacheSymbols, timeframes \in DistinctSeqsUpTo(CacheTimeframes, MaxBatch) :
        CacheStep(setMany(C, BatchResults(symbol, timeframes)), Op("setMany", <<>>, Null, <<>>),
                  [i \in 1..Len(timeframes) |-> generateKey(symbol, timeframes[i])])

GetOp ==
    \E symbol \in CacheSymbols, timeframe \in CacheTimeframes :
        LET g == get(C, symbol, timeframe)
            key == generateKey(symbol, timeframe)
        IN CacheStep(g.c, Op("get", <<symbol, timeframe>>, g.ret, key),
                     IF g.ret # Null THEN <<key>> ELSE <<>>)

GetManyOp ==
    \E symbol \in CacheSymbols, timeframes \in DistinctSeqsUpTo(CacheTimeframes, MaxBatch) :
        LET g == getMany(C, symbol, timeframes)
        IN CacheStep(g.c, Op("getMany", <<>>, Null, <<>>), HitKeys(symbol, timeframes, g.ret))

HasOp ==
    \E symbol \in CacheSymbols, timeframe \in CacheTimeframes :
        LET h == has(C, symbol, timeframe)
            key == generateKey(symbol, timeframe)
        IN CacheStep(h.c, Op("has", <<symbol, timeframe>>, h.ret, key),
                     IF h.ret THEN <<key>> ELSE <<>>)

InvalidateOp ==
    \E symbol \in CacheSymbols, timeframe \in CacheTimeframes \cup {Undefined} :
        CacheStep(invalidate(C, symbol, timeframe), Op("invalidate", <<symbol, timeframe>>, Null, <<>>), <<>>)

CleanupOp ==
    LET r == cleanup(C) IN CacheStep(r.c, Op("cleanup", <<>>, r.ret, <<>>), <<>>)

ClearOp == CacheStep(clear(C), Op("clear", <<>>, Null, <<>>), <<>>)

StatsOp == CacheStep(C, Op("stats", <<>>, stats(C), <<>>), <<>>)

\* the clock advances between operations
Tick ==
    /\ now < MaxTime
    /\ now' = now + 1
    /\ lastOp' = [op |-> "tick", args |-> <<>>, ret |-> Null, pre |-> Null, preSize |-> 0, preLive |-> {}]
    /\ UNCHANGED <<config, cache, accessOrder, lastUse, mtfVars>>

CacheInit ==
    /\ now = 0
    /\ config \in CacheConfigs
    /\ cache = EmptyCache
    /\ accessOrder = <<>>
    /\ lastOp = [op |-> "new", args |-> <<>>, ret |-> Null, pre |-> Null, preSize |-> 0, preLive |-> {}]
    /\ lastUse = EmptyCache
    /\ mtfConfig = DEFAULT_MTF_CONFIG
    /\ calls = <<>>
    /\ fetches = EmptyCache
    /\ served = EmptyCache

CacheNext ==
    \/ SetOp
    \/ SetManyOp
    \/ GetOp
    \/ GetManyOp
    \/ HasOp
    \/ InvalidateOp
    \/ CleanupOp
    \/ ClearOp
    \/ StatsOp
    \/ Tick

CacheSpec == CacheInit /\ [][CacheNext]_vars


(***************************************************************************)
(* MultiTimeframeAnalyzer: analyze and analyzeSingle calls that overlap at *)
(* their awaits, over one data provider whose fetches settle in any order  *)
(* and with any outcome. A call slot is taken again by a new call once its *)
(* call has returned or thrown. Spec is one caller that awaits each call   *)
(* before the next, with requests of up to MaxRequest timeframes;          *)
(* OverlapSpec is NumCalls callers whose calls overlap, with requests of   *)
(* up to MaxOverlap timeframes.                                            *)
(***************************************************************************)
Calls == 1..NumCalls
Symbols == {<<"B">>}
Tokens == {"1m", "1h", "2m"}
Pending == [pending |-> TRUE]
Idle == [pc |-> "idle"]

\* what a getCandles call settles with: a rejection, or a series of some length
Outcomes ==
    {[rejected |-> TRUE, candles |-> 0]}
        \cup [rejected : {FALSE}, candles : {macdSlow + macdSignal - 1, macdSlow + macdSignal}]

Count(counter, key) == IF key \in DOMAIN counter THEN counter[key] ELSE 0

\* one getCandles call is started per timeframe of the list
RECURSIVE getCandles(_, _, _)
getCandles(counter, symbol, timeframes) ==
    IF timeframes = <<>> THEN counter
    ELSE LET key == generateKey(symbol, Head(timeframes))
         IN getCandles(MapSet(counter, key, Count(counter, key) + 1), symbol, Tail(timeframes))

\* a getCandles call for the key settles
settled(counter, key) ==
    IF counter[key] = 1 THEN MapDelete(counter, key) ELSE MapSet(counter, key, counter[key] - 1)

Running(c) == calls[c].pc = "awaiting"

\* a new call takes the first slot that no running call holds
MayStart(c) == ~Running(c) /\ \A d \in 1..(c - 1) : Running(d)

\* no call has an outcome its caller has not taken yet
Quiet == \A c \in Calls : calls[c].pc \in {"idle", "awaiting"}

\* the keys of the getCandles calls that have not settled
InFlightKeys ==
    UNION {{generateKey(calls[c].symbol, calls[c].missing[i]) :
               i \in {j \in 1..Len(calls[c].missing) : calls[c].tasks[j] = Pending}} :
           c \in {d \in Calls : Running(d)}}

\* the keys a request names
RequestKeys(symbol, timeframes) ==
    {generateKey(symbol, timeframes[i]) : i \in {j \in 1..Len(timeframes) : isValidTimeframe(timeframes[j])}}

\* history: the mark of a key whose fetch or analysis failed in the call that last named it
Failed == 0 - 1

(* history kept with a call, of the keys it names: those being fetched by  *)
(* another call when it started, those stored and unexpired then, and      *)
(* those for which a call that returned before had fetched a result (or    *)
(* had failed to), not removed since and still within their TTL; and      *)
(* those the call was fetching when clearCache or invalidateCache(symbol)  *)
(* ran, none at the start                                                  *)
Started(symbol, timeframes) ==
    LET keys == RequestKeys(symbol, timeframes)
    IN [invalidated |-> {},
        inflight |-> keys \cap InFlightKeys,
        stored |-> {k \in keys \cap DOMAIN cache : now <= cache[k].expiresAt},
        prior |-> [k \in {x \in keys \cap DOMAIN served :
                            \E i \in 1..Len(timeframes) :
                               /\ isValidTimeframe(timeframes[i])
                               /\ x = generateKey(symbol, timeframes[i])
                               /\ served[x] # Failed => now <= served[x] + getTtl(timeframes[i])}
                   |-> served[k]]]

(* history when a call returns: the keys it wrote are marked with the      *)
(* time, the keys it named and has no result for as failed, and the keys   *)
(* that were cleared, invalidated or evicted are forgotten                 *)
Served(symbol, timeframes, fresh, all, before, after) ==
    LET written == {generateKey(symbol, fresh[i].timeframe) : i \in 1..Len(fresh)}
        failed == RequestKeys(symbol, timeframes) \ {generateKey(symbol, all[i].timeframe) : i \in 1..Len(all)}
        gone == ((DOMAIN before) \cup written) \ (DOMAIN after)
    IN [k \in ((DOMAIN served) \cup written \cup failed) \ gone |->
           IF k \in written THEN now
           ELSE IF k \in failed THEN Failed
           ELSE served[k]]

\* analyze up to its first await (lines 67-89, 177-208): validate, partition by the
\* cache, create every analysis promise, each of which calls getCandles at once
StartAnalyze(c, symbol, timeframes) ==
    /\ Quiet
    /\ MayStart(c)
    /\ LET validTimeframes == validateTimeframes(timeframes)
           cc == checkCache([c |-> C, cached |-> <<>>, missing |-> <<>>], symbol, validTimeframes)
       IN IF validTimeframes = <<>>
          THEN /\ calls' = [calls EXCEPT ![c] =
                      [method |-> "analyze", pc |-> "threw", symbol |-> symbol, timeframes |-> timeframes,
                       cached |-> <<>>, missing |-> <<>>, tasks |-> <<>>,
                       error |-> [name |-> "AnalysisError", code |-> "INVALID_TIMEFRAMES",
                                  timeframe |-> Undefined, symbol |-> symbol],
                       history |-> Started(symbol, timeframes)]]
               /\ UNCHANGED <<cache, accessOrder, fetches>>
          ELSE /\ cache' = cc.c.cache
               /\ accessOrder' = cc.c.accessOrder
               /\ fetches' = getCandles(fetches, symbol, cc.missing)
               /\ calls' = [calls EXCEPT ![c] =
                      [method |-> "analyze", pc |-> "awaiting", symbol |-> symbol, timeframes |-> timeframes,
                       cached |-> cc.cached, missing |-> cc.missing,
                       tasks |-> [i \in 1..Len(cc.missing) |-> Pending],
                       chunk |-> 1, results |-> <<>>,
                       history |-> Started(symbol, timeframes)]]
    /\ UNCHANGED <<now, config, obsVars, mtfConfig, served>>

\* a getCandles call of an analyze call settles and its analysis promise runs to its end
Settle(c, i, outcome) ==
    /\ Quiet
    /\ Running(c)
    /\ calls[c].method = "analyze"
    /\ i \in 1..Len(calls[c].tasks)
    /\ calls[c].tasks[i] = Pending
    /\ calls' = [calls EXCEPT ![c].tasks[i] = analysisPromise(calls[c].symbol, calls[c].missing[i], outcome)]
    /\ fetches' = settled(fetches, generateKey(calls[c].symbol, calls[c].missing[i]))
    /\ UNCHANGED <<now, cacheVars, obsVars, mtfConfig, served>>

\* await Promise.all(chunk) resumes: one iteration of the loop over the chunks (lines 210-222)
Resume(c) ==
    /\ Quiet
    /\ Running(c)
    /\ calls[c].method = "analyze"
    /\ LET chunks == chunkArray(Len(calls[c].tasks), mtfConfig.maxConcurrency)
           k == calls[c].chunk
       IN /\ k <= Len(chunks)
          /\ \A i \in chunks[k].first..chunks[k].last : calls[c].tasks[i] # Pending
          /\ calls' = [calls EXCEPT
                          ![c].results = collectChunk(@, SubSeq(calls[c].tasks, chunks[k].first, chunks[k].last)),
                          ![c].chunk = k + 1]
    /\ UNCHANGED <<now, cacheVars, obsVars, mtfConfig, fetches, served>>

\* analyze writing back every result it returns, the cached ones too
FinishWritesAll(c) ==
    /\ Quiet
    /\ Running(c)
    /\ calls[c].method = "analyze"
    /\ calls[c].chunk > Len(chunkArray(Len(calls[c].tasks), mtfConfig.maxConcurrency))
    /\ LET newResults == calls[c].results
           allResults == MapOf(calls[c].cached \o newResults)
           after == setMany(C, allResults)
       IN /\ cache' = after.cache
          /\ accessOrder' = after.accessOrder
          /\ served' = Served(calls[c].symbol, calls[c].timeframes, newResults, allResults, cache, after.cache)
          /\ calls' = [calls EXCEPT ![c] =
                          [method |-> "analyze", pc |-> "returned", symbol |-> calls[c].symbol,
                           timeframes |-> calls[c].timeframes, cached |-> calls[c].cached,
                           missing |-> calls[c].missing, tasks |-> calls[c].tasks,
                           ret |-> [symbol |-> calls[c].symbol, timestamp |-> now, results |-> allResults],
                           history |-> calls[c].history]]
    /\ UNCHANGED <<now, config, obsVars, mtfConfig, fetches>>

\* analyze after its await (lines 91-115): combine, write back, return
Finish(c) ==
    /\ Quiet
    /\ Running(c)
    /\ calls[c].method = "analyze"
    /\ calls[c].chunk > Len(chunkArray(Len(calls[c].tasks), mtfConfig.maxConcurrency))
    /\ LET newResults == calls[c].results
           allResults == MapOf(calls[c].cached \o newResults)
           after == setMany(C, newResults)
       IN /\ cache' = after.cache
          /\ accessOrder' = after.accessOrder
          /\ served' = Served(calls[c].symbol, calls[c].timeframes, newResults, allResults, cache, after.cache)
          /\ calls' = [calls EXCEPT ![c] =
                          [method |-> "analyze", pc |-> "returned", symbol |-> calls[c].symbol,
                           timeframes |-> calls[c].timeframes, cached |-> calls[c].cached,
                           missing |-> calls[c].missing, tasks |-> calls[c].tasks,
                           ret |-> [symbol |-> calls[c].symbol, timestamp |-> now, results |-> allResults],
                           history |-> calls[c].history]]
    /\ UNCHANGED <<now, config, obsVars, mtfConfig, fetches>>

\* analyzeSingle up to its await (lines 121-137)
StartSingle(c, symbol, timeframe) ==
    /\ Quiet
    /\ MayStart(c)
    /\ LET g == get(C, symbol, timeframe)
       IN /\ cache' = g.c.cache
          /\ accessOrder' = g.c.accessOrder
          /\ IF g.ret # Null
             THEN /\ calls' = [calls EXCEPT ![c] =
                         [method |-> "analyzeSingle", pc |-> "returned", symbol |-> symbol,
                          timeframes |-> <<timeframe>>, cached |-> <<g.ret>>, missing |-> <<>>,
                          tasks |-> <<>>, ret |-> g.ret, history |-> Started(symbol, <<timeframe>>)]]
                  /\ UNCHANGED fetches
             ELSE /\ calls' = [calls EXCEPT ![c] =
                         [method |-> "analyzeSingle", pc |-> "awaiting", symbol |-> symbol,
                          timeframes |-> <<timeframe>>, cached |-> <<>>, missing |-> <<timeframe>>,
                          tasks |-> <<Pending>>, history |-> Started(symbol, <<timeframe>>)]]
                  /\ fetches' = getCandles(fetches, symbol, <<timeframe>>)
    /\ UNCHANGED <<now, config, obsVars, mtfConfig, served>>

\* analyzeSingle after its await (lines 139-142); a rejection or an analyzer error propagates
SettleSingle(c, outcome) ==
    /\ Quiet
    /\ Running(c)
    /\ calls[c].method = "analyzeSingle"
    /\ fetches' = settled(fetches, generateKey(calls[c].symbol, calls[c].missing[1]))
    /\ LET p == analysisPromise(calls[c].symbol, calls[c].missing[1], outcome)
           after == set(C, p.result)
       IN IF p.error # Null
          THEN /\ calls' = [calls EXCEPT ![c] =
                      [method |-> "analyzeSingle", pc |-> "threw", symbol |-> calls[c].symbol,
                       timeframes |-> calls[c].timeframes, cached |-> <<>>, missing |-> calls[c].missing,
                       tasks |-> <<p>>, error |-> p.error, history |-> calls[c].history]]
               /\ UNCHANGED <<cache, accessOrder, served>>
          ELSE /\ cache' = after.cache
               /\ accessOrder' = after.accessOrder
               /\ served' = Served(calls[c].symbol, calls[c].timeframes, <<p.result>>, <<p.result>>, cache, after.cache)
               /\ calls' = [calls EXCEPT ![c] =
                      [method |-> "analyzeSingle", pc |-> "returned", symbol |-> calls[c].symbol,
                       timeframes |-> calls[c].timeframes, cached |-> <<>>, missing |-> calls[c].missing,
                       tasks |-> <<p>>, ret |-> p.result, history |-> calls[c].history]]
    /\ UNCHANGED <<now, config, obsVars, mtfConfig>>

\* history: the calls as they stand once the results of the symbols given have been
\* invalidated; a call awaiting its fetches for one of them has the keys it fetches marked
Overtaken(symbols) ==
    [c \in Calls |->
        IF Running(c) /\ calls[c].symbol \in symbols
        THEN [calls[c] EXCEPT !.history.invalidated =
                 @ \cup {generateKey(calls[c].symbol, calls[c].missing[i]) : i \in 1..Len(calls[c].missing)}]
        ELSE calls[c]]

clearCache ==
    /\ Quiet
    /\ cache # EmptyCache
    /\ cache' = clear(C).cache
    /\ accessOrder' = clear(C).accessOrder
    /\ served' = Served(<<>>, <<>>, <<>>, <<>>, cache, EmptyCache)
    /\ calls' = Overtaken(Symbols)
    /\ UNCHANGED <<now, config, obsVars, mtfConfig, fetches>>

invalidateCache(symbol, timeframe) ==
    /\ Quiet
    /\ cache # EmptyCache
    /\ cache' = invalidate(C, symbol, timeframe).cache
    /\ accessOrder' = invalidate(C, symbol, timeframe).accessOrder
    /\ served' = Served(<<>>, <<>>, <<>>, <<>>, cache, invalidate(C, symbol, timeframe).cache)
    /\ calls' = IF timeframe = Undefined THEN Overtaken({symbol}) ELSE calls
    /\ UNCHANGED <<now, config, obsVars, mtfConfig, fetches>>

\* the caller takes the outcome of its call
Done(c) ==
    /\ calls[c].pc \in {"returned", "threw"}
    /\ calls' = [calls EXCEPT ![c] = Idle]
    /\ UNCHANGED <<now, cacheVars, obsVars, mtfConfig, fetches, served>>

\* the clock advances between the steps of the calls; a failure is remembered until then
Advance ==
    /\ Quiet
    /\ now < MaxTime
    /\ now' = now + 1
    /\ served' = [k \in {x \in DOMAIN served : served[x] # Failed} |-> served[k]]
    /\ UNCHANGED <<cacheVars, obsVars, mtfConfig, calls, fetches>>

\* new MultiTimeframeAnalyzer(dataProvider, { maxConcurrency, cacheConfig: { defaultTtlMs, maxEntries } })
Init ==
    /\ now = 0
    /\ config \in {c \in CacheConfigs : c.timeframeTtlMultiplier = DefaultTtlMultiplier}
    /\ cache = EmptyCache
    /\ accessOrder = <<>>
    /\ lastOp = [op |-> "new", args |-> <<>>, ret |-> Null, pre |-> Null, preSize |-> 0, preLive |-> {}]
    /\ lastUse = EmptyCache
    /\ mtfConfig \in [defaultLookback : {DEFAULT_MTF_CONFIG.defaultLookback}, maxConcurrency : 1..MaxConcurrencyBound]
    /\ calls = [c \in Calls |-> Idle]
    /\ fetches = EmptyCache
    /\ served = EmptyCache

Next ==
    \/ \E symbol \in Symbols, timeframes \in SeqsUpTo(Tokens, MaxRequest) : StartAnalyze(1, symbol, timeframes)
    \/ \E i \in 1..MaxRequest, outcome \in Outcomes : Settle(1, i, outcome)
    \/ Resume(1)
    \/ Finish(1)
    \/ \E symbol \in Symbols, timeframe \in Tokens \cap Range(TIMEFRAMES) : StartSingle(1, symbol, timeframe)
    \/ \E outcome \in Outcomes : SettleSingle(1, outcome)
    \/ Done(1)
    \/ clearCache
    \/ \E symbol \in Symbols, timeframe \in (Tokens \cap Range(TIMEFRAMES)) \cup {Undefined} :
          invalidateCache(symbol, timeframe)
    \/ Advance

Spec == Init /\ [][Next]_vars

(* Spec with the scheduling of the event loop: a continuation that can run *)
(* does run. Whether a getCandles call settles is up to the data provider. *)
LiveSpec ==
    /\ Spec
    /\ WF_vars(Resume(1))
    /\ WF_vars(Finish(1))

OverlapTokens == {"1m", "2m"}

OverlapNext ==
    \/ \E c \in Calls, symbol \in Symbols, timeframes \in SeqsUpTo(OverlapTokens, MaxOverlap) :
          StartAnalyze(c, symbol, timeframes)
    \/ \E c \in Calls, i \in 1..MaxOverlap, outcome \in Outcomes : Settle(c, i, outcome)
    \/ \E c \in Calls : Resume(c)
    \/ \E c \in Calls : Finish(c)
    \/ \E c \in Calls, symbol \in Symbols, timeframe \in OverlapTokens \cap Range(TIMEFRAMES) :
          StartSingle(c, symbol, timeframe)
    \/ \E c \in Calls, outcome \in Outcomes : SettleSingle(c, outcome)
    \/ \E c \in Calls : Done(c)
    \/ clearCache
    \/ \E symbol \in Symbols, timeframe \in (OverlapTokens \cap Range(TIMEFRAMES)) \cup {Undefined} :
          invalidateCache(symbol, timeframe)
    \/ Advance

OverlapSpec == Init /\ [][OverlapNext]_vars

(***************************************************************************)
(* checkCache one lookup at a time: the loop of checkCache is synchronous, *)
(* but each cache.get reads Date.now() anew, and the clock may pass from   *)
(* one millisecond to the next between two lookups.                        *)
(***************************************************************************)
\* analyze up to the call of checkCache (lines 67-82)
CheckBegin(c, symbol, timeframes) ==
    /\ calls[c] = Idle
    /\ validateTimeframes(timeframes) # <<>>
    /\ calls' = [calls EXCEPT ![c] =
                    [method |-> "analyze", pc |-> "checking", symbol |-> symbol,
                     timeframes |-> validateTimeframes(timeframes), cached |-> <<>>, missing |-> <<>>]]
    /\ UNCHANGED <<now, cacheVars, obsVars, mtfConfig, fetches, served>>

\* one iteration of the loop of checkCache (lines 162-169), at the current time
CheckLookup(c) ==
    /\ calls[c].pc = "checking"
    /\ calls[c].timeframes # <<>>
    /\ LET acc == checkCache([c |-> C, cached |-> calls[c].cached, missing |-> calls[c].missing],
                             calls[c].symbol, <<Head(calls[c].timeframes)>>)
       IN /\ cache' = acc.c.cache
          /\ accessOrder' = acc.c.accessOrder
          /\ calls' = [calls EXCEPT ![c].timeframes = Tail(@),
                                    ![c].cached = acc.cached,
                                    ![c].missing = acc.missing]
    /\ UNCHANGED <<now, config, obsVars, mtfConfig, fetches, served>>

\* checkCache returns (line 171); what follows is left out
CheckEnd(c) ==
    /\ calls[c].pc = "checking"
    /\ calls[c].timeframes = <<>>
    /\ calls' = [calls EXCEPT ![c] = Idle]
    /\ UNCHANGED <<now, cacheVars, obsVars, mtfConfig, fetches, served>>

\* a result is written to the cache while no lookup loop is running
CheckStore ==
    /\ \A c \in Calls : calls[c] = Idle
    /\ SetOp

LookupInit ==
    /\ now = 0
    /\ config \in CacheConfigs
    /\ cache = EmptyCache
    /\ accessOrder = <<>>
    /\ lastOp = [op |-> "new", args |-> <<>>, ret |-> Null, pre |-> Null, preSize |-> 0, preLive |-> {}]
    /\ lastUse = EmptyCache
    /\ mtfConfig = DEFAULT_MTF_CONFIG
    /\ calls = [c \in Calls |-> Idle]
    /\ fetches = EmptyCache
    /\ served = EmptyCache

LookupNext ==
    \/ \E symbol \in CacheSymbols, timeframes \in SeqsUpTo(CacheTimeframes, MaxRequest) :
          CheckBegin(1, symbol, timeframes)
    \/ CheckLookup(1)
    \/ CheckEnd(1)
    \/ CheckStore
    \/ Tick

LookupSpec == LookupInit /\ [][LookupNext]_vars

(***************************************************************************)
(* Numbers. A JavaScript number is an exact fraction n/d in lowest terms   *)
(* with d > 0, or NaN, or an infinity with its sign: the values the        *)
(* arithmetic of the code yields from whole-number inputs, rounding and    *)
(* the sign of zero left out.                                              *)
(***************************************************************************)
NaN == [nan |-> TRUE]

Infinity(sign) == [inf |-> sign]

IsNaN(x) == x = NaN

IsInf(x) == "inf" \in DOMAIN x

IsFinite(x) == "n" \in DOMAIN x

Abs(i) == IF i < 0 THEN 0 - i ELSE i

RECURSIVE GCD(_, _)
GCD(a, b) == IF b = 0 THEN a ELSE GCD(b, a % b)

\* the fraction n/d with d # 0, in lowest terms
Frac(n, d) ==
    LET g == GCD(Abs(n), Abs(d))
        sgn == IF d < 0 THEN 0 - 1 ELSE 1
    IN [n |-> (sgn * n) \div g, d |-> (sgn * d) \div g]

Num(i) == [n |-> i, d |-> 1]

SignOf(x) ==
    IF IsInf(x) THEN x.inf
    ELSE IF x.n > 0 THEN 1 ELSE IF x.n < 0 THEN 0 - 1 ELSE 0

Neg(x) ==
    IF IsNaN(x) THEN NaN
    ELSE IF IsInf(x) THEN Infinity(0 - x.inf)
    ELSE [n |-> 0 - x.n, d |-> x.d]

Add(x, y) ==
    IF IsNaN(x) \/ IsNaN(y) THEN NaN
    ELSE IF IsInf(x) /\ IsInf(y) THEN (IF x.inf = y.inf THEN x ELSE NaN)
    ELSE IF IsInf(x) THEN x
    ELSE IF IsInf(y) THEN y
    ELSE Frac(x.n * y.d + y.n * x.d, x.d * y.d)

Sub(x, y) == Add(x, Neg(y))

Mul(x, y) ==
    IF IsNaN(x) \/ IsNaN(y) THEN NaN
    ELSE IF IsInf(x) \/ IsInf(y)
         THEN (IF SignOf(x) * SignOf(y) = 0 THEN NaN ELSE Infinity(SignOf(x) * SignOf(y)))
    ELSE Frac(x.n * y.n, x.d * y.d)

Div(x, y) ==
    IF IsNaN(x) \/ IsNaN(y) THEN NaN
    ELSE IF IsInf(x) THEN (IF IsInf(y) THEN NaN ELSE Infinity(IF SignOf(y) < 0 THEN 0 - x.inf ELSE x.inf))
    ELSE IF IsInf(y) THEN Num(0)
    ELSE IF y.n = 0 THEN (IF x.n = 0 THEN NaN ELSE Infinity(SignOf(x)))
    ELSE Frac(x.n * y.d, x.d * y.n)

\* x < y; every comparison with NaN is false
Lt(x, y) ==
    IF IsNaN(x) \/ IsNaN(y) THEN FALSE
    ELSE IF IsInf(x) THEN x.inf < 0 /\ y # x
    ELSE IF IsInf(y) THEN y.inf > 0
    ELSE x.n * y.d < y.n * x.d

Gt(x, y) == Lt(y, x)

Le(x, y) == ~IsNaN(x) /\ ~IsNaN(y) /\ ~Lt(y, x)

Ge(x, y) == Le(y, x)

Math_max(x, y) == IF IsNaN(x) \/ IsNaN(y) THEN NaN ELSE IF Lt(x, y) THEN y ELSE x

Math_min(x, y) == IF IsNaN(x) \/ IsNaN(y) THEN NaN ELSE IF Lt(y, x) THEN y ELSE x

Math_abs(x) == IF IsNaN(x) THEN NaN ELSE IF SignOf(x) < 0 THEN Neg(x) ELSE x

\* the additions of values.reduce((a, b) => a + b, a) for the elements from..to
\* of values, in order: those of the first half, then those of the second on
\* their result. NaN plus anything is NaN.
RECURSIVE reduceSum(_, _, _, _)
reduceSum(values, from, to, a) ==
    IF IsNaN(a) \/ from > to THEN a
    ELSE IF from = to THEN Add(a, values[from])
    ELSE LET mid == (from + to) \div 2
         IN reduceSum(values, mid + 1, to, reduceSum(values, from, mid, a))

\* values.reduce((a, b) => a + b, 0)
Sum(values) == reduceSum(values, 1, Len(values), Num(0))

(***************************************************************************)
(* analysis/momentum-analyzer.ts, on the candles themselves. A candle is   *)
(* its close and its volume; closes and volumes are sequences of numbers.  *)
(***************************************************************************)
ANALYZER_DEFAULT_CONFIG ==
    [rsiPeriod |-> 14, rsiOverbought |-> 70, rsiOversold |-> 30,
     macdFast |-> 12, macdSlow |-> macdSlow, macdSignal |-> macdSignal,
     volumeAvgPeriod |-> 20]

\* values.slice(-count): the last count elements, the whole array when count is 0
SliceLast(values, count) ==
    IF count = 0 \/ count >= Len(values) THEN values
    ELSE SubSeq(values, Len(values) - count + 1, Len(values))

\* the iterations i = from..to-1 of the second loop of calculateRSI (the code's
\* index, from 0), in order: the first half of them, then the second half on
\* their result. Two averages that are NaN stay NaN.
RECURSIVE smoothRSI(_, _, _, _, _)
smoothRSI(closes, period, from, to, avg) ==
    IF avg = [avgGain |-> NaN, avgLoss |-> NaN] \/ from >= to THEN avg
    ELSE IF to - from = 1
    THEN LET change == Sub(closes[from + 1], closes[from])
             gain == IF Gt(change, Num(0)) THEN change ELSE Num(0)
             loss == IF Lt(change, Num(0)) THEN Neg(change) ELSE Num(0)
         IN [avgGain |-> Div(Add(Mul(avg.avgGain, Num(period - 1)), gain), Num(period)),
             avgLoss |-> Div(Add(Mul(avg.avgLoss, Num(period - 1)), loss), Num(period))]
    ELSE LET mid == (from + to) \div 2
         IN smoothRSI(closes, period, mid, to, smoothRSI(closes, period, from, mid, avg))

calculateRSI(cfg, closes) ==
    LET period == cfg.rsiPeriod
        changes == [i \in 1..period |-> Sub(closes[i + 1], closes[i])]
        gains == Sum([i \in 1..period |-> IF Gt(changes[i], Num(0)) THEN changes[i] ELSE Num(0)])
        losses == Sum([i \in 1..period |-> IF Gt(changes[i], Num(0)) THEN Num(0) ELSE Neg(changes[i])])
        avg == smoothRSI(closes, period, period + 1, Len(closes),
                         [avgGain |-> Div(gains, Num(period)), avgLoss |-> Div(losses, Num(period))])
    IN IF Len(closes) < period + 1 THEN Num(50)
       ELSE IF avg.avgLoss = Num(0) THEN Num(100)
       ELSE Sub(Num(100), Div(Num(100), Add(Num(1), Div(avg.avgGain, avg.avgLoss))))

\* the iterations i = from..to-1 of the loop of calculateEMA (the code's index,
\* from 0), in order: the first half of them, then the second half on their
\* result. An average that is NaN stays NaN.
RECURSIVE stepEMA(_, _, _, _, _)
stepEMA(values, multiplier, from, to, ema) ==
    IF IsNaN(ema) \/ from >= to THEN ema
    ELSE IF to - from = 1 THEN Add(Mul(Sub(values[from + 1], ema), multiplier), ema)
    ELSE LET mid == (from + to) \div 2
         IN stepEMA(values, multiplier, mid, to, stepEMA(values, multiplier, from, mid, ema))

calculateEMA(values, period) ==
    IF Len(values) < period
    THEN (IF values = <<>> \/ IsNaN(values[Len(values)]) THEN Num(0) ELSE values[Len(values)])
    ELSE stepEMA(values, Div(Num(2), Num(period + 1)), period, Len(values),
                 Div(Sum(SubSeq(values, 1, period)), Num(period)))

calculateEMAAtIndex(values, period, index) == calculateEMA(SubSeq(values, 1, index + 1), period)

calculateMACD(cfg, closes) ==
    LET macdLine == Sub(calculateEMA(closes, cfg.macdFast), calculateEMA(closes, cfg.macdSlow))
        macdValues == [i \in 1..Len(closes) |->
                          Sub(calculateEMAAtIndex(closes, cfg.macdFast, i - 1),
                              calculateEMAAtIndex(closes, cfg.macdSlow, i - 1))]
        signal == calculateEMA(SliceLast(macdValues, cfg.macdSignal * 2), cfg.macdSignal)
    IN [macd |-> macdLine, signal |-> signal, histogram |-> Sub(macdLine, signal)]

calculateVolumeRatio(cfg, volumes) ==
    LET period == IF cfg.volumeAvgPeriod < Len(volumes) - 1 THEN cfg.volumeAvgPeriod ELSE Len(volumes) - 1
        avgVolume == Div(Sum(SubSeq(volumes, Len(volumes) - period, Len(volumes) - 1)), Num(period))
    IN IF period < 1 THEN Num(1)
       ELSE IF avgVolume = Num(0) THEN Num(1)
       ELSE Div(volumes[Len(volumes)], avgVolume)

\* a score of 15 is already bullish, a score of -15 already bearish
directionInclusive(score) ==
    IF Ge(score, Num(15)) THEN "bullish" ELSE IF Le(score, Num(0 - 15)) THEN "bearish" ELSE "neutral"

\* let direction = score > 15 ? 'bullish' : score < -15 ? 'bearish' : 'neutral'
direction(score) ==
    IF Gt(score, Num(15)) THEN "bullish" ELSE IF Lt(score, Num(0 - 15)) THEN "bearish" ELSE "neutral"

\* let strength = absScore > 60 ? 'strong' : absScore > 30 ? 'moderate' : 'weak'
strength(absScore) ==
    IF Gt(absScore, Num(60)) THEN "strong" ELSE IF Gt(absScore, Num(30)) THEN "moderate" ELSE "weak"

calculateMomentum(cfg, rsi, macdHistogram, volumeRatio, closes) ==
    LET n == Len(closes)
        recentPriceChange ==
            IF n >= 5 THEN Mul(Div(Sub(closes[n], closes[n - 4]), closes[n - 4]), Num(100)) ELSE Num(0)
        rsiScore ==
            IF Gt(rsi, Num(cfg.rsiOverbought))
            THEN Mul(Div(Sub(rsi, Num(cfg.rsiOverbought)), Num(100 - cfg.rsiOverbought)), Num(50))
            ELSE IF Lt(rsi, Num(cfg.rsiOversold))
            THEN Neg(Mul(Div(Sub(Num(cfg.rsiOversold), rsi), Num(cfg.rsiOversold)), Num(50)))
            ELSE Mul(Div(Sub(rsi, Num(50)), Num(20)), Num(25))
        macdScore == Math_max(Num(0 - 30), Math_min(Num(30), Mul(macdHistogram, Num(10))))
        volumeMultiplier ==
            Math_max(Frac(4, 5), Math_min(Frac(3, 2), Add(Frac(4, 5), Mul(volumeRatio, Frac(1, 5)))))
        priceScore == Math_max(Num(0 - 20), Math_min(Num(20), Mul(recentPriceChange, Num(5))))
        score == Math_max(Num(0 - 100),
                          Math_min(Num(100), Mul(Add(Add(rsiScore, macdScore), priceScore), volumeMultiplier)))
        absScore == Math_abs(score)
    IN [direction |-> direction(score), strength |-> strength(absScore), score |-> score]

\* the length is compared with macdSlow alone
analyzeSlowOnly(cfg, symbol, timeframe, candles) ==
    [threw |-> Len(candles) < cfg.macdSlow,
     error |-> [name |-> "AnalysisError", code |-> "INSUFFICIENT_DATA",
                timeframe |-> timeframe, symbol |-> symbol],
     result |-> [timeframe |-> timeframe, symbol |-> symbol, timestamp |-> now]]

\* MomentumAnalyzer.analyze: returns the MomentumResult, or the AnalysisError thrown
analyze(cfg, symbol, timeframe, candles) ==
    LET minCandles == cfg.macdSlow + cfg.macdSignal
        closes == [i \in 1..Len(candles) |-> Num(candles[i].close)]
        volumes == [i \in 1..Len(candles) |-> Num(candles[i].volume)]
        rsi == calculateRSI(cfg, closes)
        histogram == calculateMACD(cfg, closes).histogram
        volumeRatio == calculateVolumeRatio(cfg, volumes)
        m == calculateMomentum(cfg, rsi, histogram, volumeRatio, closes)
    IN IF Len(candles) < minCandles
       THEN [threw |-> TRUE,
             error |-> [name |-> "AnalysisError", code |-> "INSUFFICIENT_DATA",
                        timeframe |-> timeframe, symbol |-> symbol]]
       ELSE [threw |-> FALSE,
             result |-> [timeframe |-> timeframe, symbol |-> symbol, timestamp |-> now,
                         rsi |-> rsi, macdSignal |-> histogram, volumeRatio |-> volumeRatio,
                         direction |-> m.direction, strength |-> m.strength, score |-> m.score,
                         metadata |-> [candleCount |-> Len(candles), latestClose |-> closes[Len(closes)]]]]

(***************************************************************************)
(* MomentumAnalyzer called directly, once in a behaviour. Under the        *)
(* default configuration the series are flat (every candle the same);      *)
(* under the short configurations they are all the series of up to         *)
(* MaxCandles candles.                                                     *)
(***************************************************************************)
Closes == {0, 1, 2}
Volumes == {0, 1}
Candle == [close : Closes, volume : Volumes]

\* configurations whose minimum series is five candles long
ShortConfigs ==
    {[ANALYZER_DEFAULT_CONFIG EXCEPT !.macdFast = 1, !.macdSlow = 3, !.macdSignal = 2,
                                     !.rsiPeriod = p[1], !.volumeAvgPeriod = p[2]] :
        p \in {<<2, 2>>, <<14, 20>>}}

AnalyzerConfigs == {ANALYZER_DEFAULT_CONFIG} \cup ShortConfigs

Series(cfg) ==
    LET minCandles == cfg.macdSlow + cfg.macdSignal
    IN IF cfg \in ShortConfigs
       THEN UNION {[1..n -> Candle] : n \in (minCandles - 1)..MaxCandles}
       ELSE {[i \in 1..n |-> candle] : n \in {minCandles - 1, minCandles}, candle \in Candle}

\* what calculateMomentum is given by analyze, chosen freely
Indicators ==
    [rsi : {Num(0), Num(29), Num(30), Num(50), Num(70), Num(71), Num(100)},
     macdHistogram : {Num(0 - 3), Frac(0 - 3, 2), Num(0), Frac(3, 2), Frac(8, 5), Num(3)},
     volumeRatio : {Num(0), Num(1), Num(4)}]

AnalyzeOp ==
    /\ lastOp.op = "new"
    /\ \E symbol \in Symbols, timeframe \in {"1h"}, candles \in Series(mtfConfig.analyzerConfig) :
          LET a == analyze(mtfConfig.analyzerConfig, symbol, timeframe, candles)
          IN /\ lastOp' = [op |-> "analyze", args |-> <<symbol, timeframe, candles>>,
                           ret |-> IF a.threw THEN Null ELSE a.result,
                           error |-> IF a.threw THEN a.error ELSE Null]
             /\ UNCHANGED <<now, cacheVars, lastUse, mtfVars>>

CalculateMomentumOp ==
    /\ lastOp.op = "new"
    /\ \E in \in Indicators, last \in Closes, before \in Closes :
          LET closes == <<Num(before), Num(before), Num(before), Num(before), Num(last)>>
              m == calculateMomentum(mtfConfig.analyzerConfig, in.rsi, in.macdHistogram, in.volumeRatio, closes)
          IN /\ lastOp' = [op |-> "calculateMomentum",
                           args |-> <<in.rsi, in.macdHistogram, in.volumeRatio, closes>>,
                           ret |-> m, error |-> Null]
             /\ UNCHANGED <<now, cacheVars, lastUse, mtfVars>>

\* new MomentumAnalyzer(analyzerConfig)
AnalyzerInit ==
    /\ now = 0
    /\ config \in {c \in CacheConfigs : c.maxEntries = 1 /\ c.timeframeTtlMultiplier = DefaultTtlMultiplier}
    /\ cache = EmptyCache
    /\ accessOrder = <<>>
    /\ lastOp = [op |-> "new", args |-> <<>>, ret |-> Null, error |-> Null]
    /\ lastUse = EmptyCache
    /\ mtfConfig \in [defaultLookback : {DEFAULT_MTF_CONFIG.defaultLookback},
                      maxConcurrency : {DEFAULT_MTF_CONFIG.maxConcurrency},
                      analyzerConfig : AnalyzerConfigs]
    /\ calls = [c \in Calls |-> Idle]
    /\ fetches = EmptyCache
    /\ served = EmptyCache

AnalyzerNext ==
    \/ CalculateMomentumOp
    \/ AnalyzeOp

AnalyzerSpec == AnalyzerInit /\ [][AnalyzerNext]_vars

(***************************************************************************)
(* calculateAlignment and calculateOverallMomentum, applied once in a      *)
(* behaviour to a result map chosen freely: up to MaxResults results of    *)
(* distinct timeframes, each with any direction and any score of Scores.   *)
(***************************************************************************)
TIMEFRAME_WEIGHT == [tf \in Range(TIMEFRAMES) |->
    CASE tf = "1m" -> 1 [] tf = "5m" -> 2 [] tf = "15m" -> 3 [] tf = "1h" -> 5 [] tf = "4h" -> 8 [] tf = "1d" -> 13]

Directions == {"bullish", "bearish", "neutral"}

\* every timeframe weighs 1
directionCountsUnweighted(results, dir) ==
    LET members == SelectSeq(results, LAMBDA r : r.direction = dir)
    IN [count |-> Len(members),
        weight |-> Sum([i \in 1..Len(members) |-> Num(1)]),
        timeframes |-> [i \in 1..Len(members) |-> members[i].timeframe]]

\* directionCounts[direction] of the results
directionCounts(results, dir) ==
    LET members == SelectSeq(results, LAMBDA r : r.direction = dir)
    IN [count |-> Len(members),
        weight |-> Sum([i \in 1..Len(members) |-> Num(TIMEFRAME_WEIGHT[members[i].timeframe])]),
        timeframes |-> [i \in 1..Len(members) |-> members[i].timeframe]]

\* aligned only strictly above the threshold
calculateAlignmentStrict(alignmentThreshold, results) ==
    LET bullish == directionCounts(results, "bullish")
        bearish == directionCounts(results, "bearish")
        neutral == directionCounts(results, "neutral")
        dominantDirection ==
            IF Gt(bullish.weight, bearish.weight) THEN "bullish"
            ELSE IF Gt(bearish.weight, bullish.weight) THEN "bearish"
            ELSE "neutral"
        totalWeight == Sum([i \in 1..Len(results) |-> Num(TIMEFRAME_WEIGHT[results[i].timeframe])])
        alignedWeight == directionCounts(results, dominantDirection).weight
        weightedScore ==
            IF Gt(totalWeight, Num(0)) THEN Mul(Div(alignedWeight, totalWeight), Num(100)) ELSE Num(0)
        alignedCount == directionCounts(results, dominantDirection).count
        alignmentScore ==
            IF Len(results) > 0 THEN Mul(Div(Num(alignedCount), Num(Len(results))), Num(100)) ELSE Num(0)
        alignedOnes == SelectSeq(results, LAMBDA r : r.direction = dominantDirection)
        divergentOnes == SelectSeq(results, LAMBDA r : r.direction # dominantDirection /\ r.direction # "neutral")
    IN [aligned |-> Gt(alignmentScore, Mul(alignmentThreshold, Num(100))),
        alignedTimeframes |-> [i \in 1..Len(alignedOnes) |-> alignedOnes[i].timeframe],
        divergentTimeframes |-> [i \in 1..Len(divergentOnes) |-> divergentOnes[i].timeframe],
        dominantDirection |-> dominantDirection,
        alignmentScore |-> alignmentScore,
        weightedScore |-> weightedScore]

\* every timeframe off the dominant direction counts as divergent
calculateAlignmentNeutralDivergent(alignmentThreshold, results) ==
    LET bullish == directionCounts(results, "bullish")
        bearish == directionCounts(results, "bearish")
        neutral == directionCounts(results, "neutral")
        dominantDirection ==
            IF Gt(bullish.weight, bearish.weight) THEN "bullish"
            ELSE IF Gt(bearish.weight, bullish.weight) THEN "bearish"
            ELSE "neutral"
        totalWeight == Sum([i \in 1..Len(results) |-> Num(TIMEFRAME_WEIGHT[results[i].timeframe])])
        alignedWeight == directionCounts(results, dominantDirection).weight
        weightedScore ==
            IF Gt(totalWeight, Num(0)) THEN Mul(Div(alignedWeight, totalWeight), Num(100)) ELSE Num(0)
        alignedCount == directionCounts(results, dominantDirection).count
        alignmentScore ==
            IF Len(results) > 0 THEN Mul(Div(Num(alignedCount), Num(Len(results))), Num(100)) ELSE Num(0)
        alignedOnes == SelectSeq(results, LAMBDA r : r.direction = dominantDirection)
        divergentOnes == SelectSeq(results, LAMBDA r : r.direction # dominantDirection)
    IN [aligned |-> Ge(alignmentScore, Mul(alignmentThreshold, Num(100))),
        alignedTimeframes |-> [i \in 1..Len(alignedOnes) |-> alignedOnes[i].timeframe],
        divergentTimeframes |-> [i \in 1..Len(divergentOnes) |-> divergentOnes[i].timeframe],
        dominantDirection |-> dominantDirection,
        alignmentScore |-> alignmentScore,
        weightedScore |-> weightedScore]

calculateAlignment(alignmentThreshold, results) ==
    LET bullish == directionCounts(results, "bullish")
        bearish == directionCounts(results, "bearish")
        neutral == directionCounts(results, "neutral")
        dominantDirection ==
            IF Gt(bullish.weight, bearish.weight) THEN "bullish"
            ELSE IF Gt(bearish.weight, bullish.weight) THEN "bearish"
            ELSE "neutral"
        totalWeight == Sum([i \in 1..Len(results) |-> Num(TIMEFRAME_WEIGHT[results[i].timeframe])])
        alignedWeight == directionCounts(results, dominantDirection).weight
        weightedScore ==
            IF Gt(totalWeight, Num(0)) THEN Mul(Div(alignedWeight, totalWeight), Num(100)) ELSE Num(0)
        alignedCount == directionCounts(results, dominantDirection).count
        alignmentScore ==
            IF Len(results) > 0 THEN Mul(Div(Num(alignedCount), Num(Len(results))), Num(100)) ELSE Num(0)
        alignedOnes == SelectSeq(results, LAMBDA r : r.direction = dominantDirection)
        divergentOnes == SelectSeq(results, LAMBDA r : r.direction # dominantDirection /\ r.direction # "neutral")
    IN [aligned |-> Ge(alignmentScore, Mul(alignmentThreshold, Num(100))),
        alignedTimeframes |-> [i \in 1..Len(alignedOnes) |-> alignedOnes[i].timeframe],
        divergentTimeframes |-> [i \in 1..Len(divergentOnes) |-> divergentOnes[i].timeframe],
        dominantDirection |-> dominantDirection,
        alignmentScore |-> alignmentScore,
        weightedScore |-> weightedScore]

\* the three parts weigh the same and the sum is not capped
calculateOverallMomentumUncapped(results, alignment) ==
    LET totalWeight == Sum([i \in 1..Len(results) |-> Num(TIMEFRAME_WEIGHT[results[i].timeframe])])
        weightedScoreSum ==
            Sum([i \in 1..Len(results) |-> Mul(results[i].score, Num(TIMEFRAME_WEIGHT[results[i].timeframe]))])
        avgScore == IF Gt(totalWeight, Num(0)) THEN Div(weightedScoreSum, totalWeight) ELSE Num(0)
        absScore == Math_abs(avgScore)
    IN IF Len(results) = 0
       THEN [overallDirection |-> "neutral", overallStrength |-> "weak", confluenceScore |-> Num(0)]
       ELSE [overallDirection |-> IF Gt(avgScore, Num(15)) THEN "bullish"
                                  ELSE IF Lt(avgScore, Num(0 - 15)) THEN "bearish" ELSE "neutral",
             overallStrength |-> IF alignment.aligned /\ Gt(absScore, Num(50)) THEN "strong"
                                 ELSE IF alignment.aligned \/ Gt(absScore, Num(30)) THEN "moderate"
                                 ELSE "weak",
             confluenceScore |->
                 Add(Num(0),
                          Add(Add(Mul(alignment.weightedScore, Frac(2, 5)), Mul(Math_abs(avgScore), Frac(2, 5))),
                              Mul(Mul(Div(Num(Len(alignment.alignedTimeframes)), Num(Len(results))), Num(100)),
                                  Frac(2, 5))))]

\* moderate needs both alignment and a weighted average beyond 30
calculateOverallMomentumBoth(results, alignment) ==
    LET totalWeight == Sum([i \in 1..Len(results) |-> Num(TIMEFRAME_WEIGHT[results[i].timeframe])])
        weightedScoreSum ==
            Sum([i \in 1..Len(results) |-> Mul(results[i].score, Num(TIMEFRAME_WEIGHT[results[i].timeframe]))])
        avgScore == IF Gt(totalWeight, Num(0)) THEN Div(weightedScoreSum, totalWeight) ELSE Num(0)
        absScore == Math_abs(avgScore)
    IN IF Len(results) = 0
       THEN [overallDirection |-> "neutral", overallStrength |-> "weak", confluenceScore |-> Num(0)]
       ELSE [overallDirection |-> IF Gt(avgScore, Num(15)) THEN "bullish"
                                  ELSE IF Lt(avgScore, Num(0 - 15)) THEN "bearish" ELSE "neutral",
             overallStrength |-> IF alignment.aligned /\ Gt(absScore, Num(50)) THEN "strong"
                                 ELSE IF alignment.aligned /\ Gt(absScore, Num(30)) THEN "moderate"
                                 ELSE "weak",
             confluenceScore |->
                 Math_min(Num(100),
                          Add(Add(Mul(alignment.weightedScore, Frac(2, 5)), Mul(Math_abs(avgScore), Frac(2, 5))),
                              Mul(Mul(Div(Num(Len(alignment.alignedTimeframes)), Num(Len(results))), Num(100)),
                                  Frac(1, 5))))]

calculateOverallMomentum(results, alignment) ==
    LET totalWeight == Sum([i \in 1..Len(results) |-> Num(TIMEFRAME_WEIGHT[results[i].timeframe])])
        weightedScoreSum ==
            Sum([i \in 1..Len(results) |-> Mul(results[i].score, Num(TIMEFRAME_WEIGHT[results[i].timeframe]))])
        avgScore == IF Gt(totalWeight, Num(0)) THEN Div(weightedScoreSum, totalWeight) ELSE Num(0)
        absScore == Math_abs(avgScore)
    IN IF Len(results) = 0
       THEN [overallDirection |-> "neutral", overallStrength |-> "weak", confluenceScore |-> Num(0)]
       ELSE [overallDirection |-> IF Gt(avgScore, Num(15)) THEN "bullish"
                                  ELSE IF Lt(avgScore, Num(0 - 15)) THEN "bearish" ELSE "neutral",
             overallStrength |-> IF alignment.aligned /\ Gt(absScore, Num(50)) THEN "strong"
                                 ELSE IF alignment.aligned \/ Gt(absScore, Num(30)) THEN "moderate"
                                 ELSE "weak",
             confluenceScore |->
                 Math_min(Num(100),
                          Add(Add(Mul(alignment.weightedScore, Frac(2, 5)), Mul(Math_abs(avgScore), Frac(2, 5))),
                              Mul(Mul(Div(Num(Len(alignment.alignedTimeframes)), Num(Len(results))), Num(100)),
                                  Frac(1, 5))))]

ResultTimeframes == {"1m", "1h", "1d"}
Scores == {Num(0 - 100), Num(0 - 16), Num(0), Num(16), Num(100)}
AlignmentThresholds == {Frac(3, 5), Num(1), Frac(3, 2)}

\* a result map: one result for each timeframe of a sequence without
\* repetition, with the direction and score picked for it
ResultMap(timeframes, pick) ==
    [i \in 1..Len(timeframes) |-> [timeframe |-> timeframes[i], symbol |-> <<"B">>,
                                   direction |-> pick[i].direction, score |-> pick[i].score]]

\* analyze from the combined map to the returned object (lines 100-115)
CombineOp ==
    /\ lastOp.op = "new"
    /\ \E timeframes \in DistinctSeqsUpTo(ResultTimeframes, MaxResults) :
       \E pick \in [1..Len(timeframes) -> [direction : Directions, score : Scores]] :
          LET results == ResultMap(timeframes, pick)
              alignment == calculateAlignment(mtfConfig.alignmentThreshold, results)
              overall == calculateOverallMomentum(results, alignment)
          IN /\ lastOp' = [op |-> "combine", args |-> <<results>>,
                           ret |-> [results |-> results, alignment |-> alignment,
                                    overallDirection |-> overall.overallDirection,
                                    overallStrength |-> overall.overallStrength,
                                    confluenceScore |-> overall.confluenceScore],
                           error |-> Null]
             /\ UNCHANGED <<now, cacheVars, lastUse, mtfVars>>

\* new MultiTimeframeAnalyzer(dataProvider, { alignmentThreshold })
AlignmentInit ==
    /\ now = 0
    /\ config \in {c \in CacheConfigs : c.maxEntries = 1 /\ c.timeframeTtlMultiplier = DefaultTtlMultiplier}
    /\ cache = EmptyCache
    /\ accessOrder = <<>>
    /\ lastOp = [op |-> "new", args |-> <<>>, ret |-> Null, error |-> Null]
    /\ lastUse = EmptyCache
    /\ mtfConfig \in [defaultLookback : {DEFAULT_MTF_CONFIG.defaultLookback},
                      maxConcurrency : {DEFAULT_MTF_CONFIG.maxConcurrency},
                      alignmentThreshold : AlignmentThresholds]
    /\ calls = [c \in Calls |-> Idle]
    /\ fetches = EmptyCache
    /\ served = EmptyCache

AlignmentNext == \/ CombineOp

AlignmentSpec == AlignmentInit /\ [][AlignmentNext]_vars

(***************************************************************************)
(* Properties of the ResultCache (CacheSpec)                               *)
(***************************************************************************)
\* defaultTtlMs x m, with m = 1 for a timeframe the table does not configure
StatedTtl(timeframe) ==
    IF timeframe \in DOMAIN config.timeframeTtlMultiplier
    THEN (config.defaultTtlMs * config.timeframeTtlMultiplier[timeframe]) \div 2
    ELSE config.defaultTtlMs

LastKey == generateKey(lastOp.args[1], lastOp.args[2])

(* C5: a result stored by set at time t is stored with expiresAt = t + TTL *)
(* and no later operation changes that; a get at a time <= t + TTL returns *)
(* the result and leaves the entry as it was, a get at a later time        *)
(* returns null and removes the entry from the map and the recency list.   *)
C5_TtlWindow ==
    /\ \A key \in DOMAIN cache :
          /\ cache[key].timestamp <= now
          /\ cache[key].expiresAt = cache[key].timestamp + StatedTtl(cache[key].data.timeframe)
    /\ lastOp.op = "set" =>
          LET key == generateKey(lastOp.args.symbol, lastOp.args.timeframe)
          IN key \in DOMAIN cache /\ cache[key].data = lastOp.args /\ cache[key].timestamp = now
    /\ (lastOp.op = "get" /\ lastOp.pre # Null) =>
          IF now <= lastOp.pre.timestamp + StatedTtl(lastOp.args[2])
          THEN /\ lastOp.ret = lastOp.pre.data
               /\ LastKey \in DOMAIN cache
               /\ cache[LastKey] = lastOp.pre
          ELSE /\ lastOp.ret = Null
               /\ LastKey \notin DOMAIN cache
               /\ LastKey \notin Range(accessOrder)

\* a get one millisecond after the entry's expiry found it and returned null
C5_Witness ==
    /\ lastOp.op = "get"
    /\ lastOp.pre # Null
    /\ now = lastOp.pre.timestamp + StatedTtl(lastOp.args[2]) + 1
    /\ lastOp.ret = Null

(* C6: a set of a key that is not stored, into a cache holding maxEntries  *)
(* entries, evicts exactly one entry: the stored one whose most recent set *)
(* or get-hit is the oldest.                                               *)
C6_EvictsLeastRecentlyUsed ==
    [][(lastOp'.op = "set" /\ lastOp'.pre = Null /\ lastOp'.preSize = config.maxEntries) =>
          \E victim \in DOMAIN cache :
              /\ lastUse[victim] = 1
              /\ DOMAIN cache' =
                    ((DOMAIN cache) \ {victim}) \cup {generateKey(lastOp'.args.symbol, lastOp'.args.timeframe)}
              /\ \A key \in (DOMAIN cache) \ {victim} : cache'[key] = cache[key]]_vars

\* a set has just evicted from a full cache of capacity 2 or more, and the survivor
\* was stored before the entry set last but used after it
C6_Witness ==
    /\ lastOp.op = "set"
    /\ lastOp.pre = Null
    /\ config.maxEntries >= 2
    /\ lastOp.preSize = config.maxEntries
    /\ \E key \in DOMAIN cache : cache[key].timestamp < now /\ lastUse[key] < Cardinality(DOMAIN cache)

(* C7: with maxEntries >= 1, stats().size never exceeds maxEntries.        *)
C7_SizeWithinMaxEntries ==
    config.maxEntries >= 1 => stats(C).size <= config.maxEntries

\* the cache is full right after a set that had to make room
C7_Witness ==
    /\ lastOp.op = "set"
    /\ lastOp.pre = Null
    /\ lastOp.preSize = config.maxEntries
    /\ stats(C).size = config.maxEntries

(* C8: accessOrder and the entry map hold the same keys, and accessOrder   *)
(* holds no key twice.                                                     *)
C8_AccessOrderInSync ==
    /\ Range(accessOrder) = DOMAIN cache
    /\ \A i, j \in 1..Len(accessOrder) : accessOrder[i] = accessOrder[j] => i = j

\* a get has just removed an expired entry while other entries stay stored
C8_Witness ==
    /\ lastOp.op = "get"
    /\ lastOp.pre # Null
    /\ lastOp.ret = Null
    /\ Cardinality(DOMAIN cache) >= 1

(* C9: invalidate(symbol) without a timeframe removes exactly the entries  *)
(* whose result symbol is that symbol; the entries of every other symbol   *)
(* keep their value, their expiry and their relative recency order.        *)
C9_InvalidateSymbolOnly ==
    [][(lastOp'.op = "invalidate" /\ lastOp'.args[2] = Undefined) =>
          LET keep == {key \in DOMAIN cache : cache[key].data.symbol # lastOp'.args[1]}
          IN /\ DOMAIN cache' = keep
             /\ \A key \in keep : cache'[key] = cache[key]
             /\ accessOrder' = SelectSeq(accessOrder, LAMBDA key : key \in keep)]_vars

(* C16: every entry is stored under the key built from its own            *)
(* data.symbol and data.timeframe, a get(s, tf) that returns a result      *)
(* returns one with symbol s and timeframe tf, and a set for one pair      *)
(* leaves what get returns for every other pair still stored as it was.    *)
C16_KeyedByOwnData ==
    [][/\ \A key \in DOMAIN cache' :
             key = generateKey(cache'[key].data.symbol, cache'[key].data.timeframe)
       /\ (lastOp'.op = "get" /\ lastOp'.ret # Null) =>
             /\ lastOp'.ret.symbol = lastOp'.args[1]
             /\ lastOp'.ret.timeframe = lastOp'.args[2]
       /\ lastOp'.op = "set" =>
             \A symbol \in CacheSymbols, timeframe \in CacheTimeframes :
                 (/\ <<symbol, timeframe>> # <<lastOp'.args.symbol, lastOp'.args.timeframe>>
                  /\ \E key \in DOMAIN cache' :
                        cache'[key].data.symbol = symbol /\ cache'[key].data.timeframe = timeframe)
                 => get([cache |-> cache', accessOrder |-> accessOrder'], symbol, timeframe).ret
                       = get(C, symbol, timeframe).ret]_vars

\* a get returned the result of its pair while a result of the same symbol for
\* another timeframe, set later, is stored beside it
C16_Witness ==
    /\ lastOp.op = "get"
    /\ lastOp.ret # Null
    /\ lastOp.ret.symbol = lastOp.args[1]
    /\ lastOp.ret.timeframe = lastOp.args[2]
    /\ \E key \in DOMAIN cache :
          /\ cache[key].data.symbol = lastOp.args[1]
          /\ cache[key].data.timeframe # lastOp.args[2]
          /\ cache[key].timestamp > lastOp.ret.timestamp

(* C18: cleanup removes exactly the entries with now > expiresAt, returns  *)
(* their number, and leaves every other entry, its expiry and the relative *)
(* recency order of the remaining keys as they were.                       *)
C18_CleanupRemovesExpiredOnly ==
    [][lastOp'.op = "cleanup" =>
          LET expired == {key \in DOMAIN cache : now > cache[key].expiresAt}
          IN /\ DOMAIN cache' = (DOMAIN cache) \ expired
             /\ \A key \in (DOMAIN cache) \ expired : cache'[key] = cache[key]
             /\ lastOp'.ret = Cardinality(expired)
             /\ accessOrder' = SelectSeq(accessOrder, LAMBDA key : key \notin expired)]_vars

\* a cleanup removed one entry and kept one that expires at this very millisecond
C18_Witness ==
    /\ lastOp.op = "cleanup"
    /\ lastOp.ret = 1
    /\ \E key \in DOMAIN cache : cache[key].expiresAt = now /\ cache[key].timestamp < now

\* the key a set has just written
SetKey == generateKey(lastOp.args.symbol, lastOp.args.timeframe)

(* C28: on a cache holding exactly maxEntries entries, a set for a key     *)
(* that is already stored removes the least-recently-used entry: the size  *)
(* afterwards is maxEntries - 1 when that entry had another key, and       *)
(* maxEntries when the key set again was itself the least recently used.   *)
C28_SetOfStoredKeyEvicts ==
    [][(lastOp'.op = "set" /\ lastOp'.pre # Null /\ lastOp'.preSize = config.maxEntries) =>
          \E oldest \in DOMAIN cache :
              /\ lastUse[oldest] = 1
              /\ DOMAIN cache' = ((DOMAIN cache) \ {oldest}) \cup {SetKey'}
              /\ Cardinality(DOMAIN cache') =
                    IF oldest = SetKey' THEN config.maxEntries ELSE config.maxEntries - 1]_vars

\* a set of a stored key into a full cache of capacity 2 left one entry
C28_Witness ==
    /\ lastOp.op = "set"
    /\ lastOp.pre # Null
    /\ config.maxEntries = 2
    /\ lastOp.preSize = 2
    /\ Cardinality(DOMAIN cache) = 1

\* the entries a step removed, the key of a set aside
Evicted == (DOMAIN cache) \ (DOMAIN cache')

(* C29 as stated: a set never evicts an unexpired entry while an entry     *)
(* that is already expired stays stored.                                   *)
C29_ExpiredEvictedFirst ==
    [][lastOp'.op = "set" =>
          \A key \in Evicted :
              ~isExpired(cache[key]) =>
                  ~\E other \in (DOMAIN cache') \ {SetKey'} :
                       other \in DOMAIN cache /\ isExpired(cache[other])]_vars

(* C29: every entry a set evicts is the least recently used one of the     *)
(* entries stored before the call, whether or not it is expired and        *)
(* whether or not an expired entry stays stored.                           *)
C29_EvictsByRecencyOnly ==
    [][lastOp'.op = "set" => \A key \in Evicted : lastUse[key] = 1]_vars

\* a set has evicted an entry that had not expired while an expired one is stored
C29_Witness ==
    /\ lastOp.op = "set"
    /\ lastOp.preSize = config.maxEntries
    /\ Cardinality(DOMAIN cache) = config.maxEntries
    /\ lastOp.pre = Null
    /\ \E gone \in lastOp.preLive : gone \notin DOMAIN cache
    /\ \E other \in (DOMAIN cache) \ {SetKey} : isExpired(cache[other])

(***************************************************************************)
(* Properties of MultiTimeframeAnalyzer (Spec, OverlapSpec)                *)
(***************************************************************************)
\* the recognised set, as the spec lists it
Recognised == {"1m", "5m", "15m", "1h", "4h", "1d"}

Began(c) == calls[c].pc # "idle"

\* the getCandles calls of call c that have not settled
Unsettled(c) == {i \in 1..Len(calls[c].tasks) : calls[c].tasks[i] = Pending}

\* the number of getCandles calls that call c has made for the key
FetchesOf(c, key) ==
    Cardinality({i \in 1..Len(calls[c].missing) : generateKey(calls[c].symbol, calls[c].missing[i]) = key})

\* the tasks of call c that produced a result
Succeeded(c) == {i \in 1..Len(calls[c].tasks) : calls[c].tasks[i].error = Null}

(* C1: during an analyze call the number of getCandles calls started and   *)
(* not yet settled is at most maxConcurrency.                              *)
C1_InFlightWithinMaxConcurrency ==
    \A c \in Calls :
        (Running(c) /\ calls[c].method = "analyze") =>
            Cardinality(Unsettled(c)) <= mtfConfig.maxConcurrency

(* C2: an analyze call with a recognised timeframe does not throw, and the *)
(* results map it returns holds exactly the cache hits and the missing     *)
(* timeframes that did not fail, each with the result the cache held or    *)
(* the analysis produced, whichever of the missing timeframes failed.      *)
C2_PartialFailureIsolated ==
    \A c \in Calls :
        (/\ Began(c)
         /\ calls[c].method = "analyze"
         /\ \E i \in 1..Len(calls[c].timeframes) : calls[c].timeframes[i] \in Recognised) =>
            /\ calls[c].pc # "threw"
            /\ calls[c].pc = "returned" =>
                  LET results == calls[c].ret.results
                      hits == calls[c].cached
                  IN /\ {results[i].timeframe : i \in 1..Len(results)} =
                            {hits[i].timeframe : i \in 1..Len(hits)}
                               \cup {calls[c].missing[i] : i \in Succeeded(c)}
                     /\ \A i, j \in 1..Len(results) : results[i].timeframe = results[j].timeframe => i = j
                     /\ \A i \in 1..Len(hits) : hits[i] \in Range(results)
                     /\ \A i \in 1..Len(results) :
                            \/ results[i] \in Range(hits)
                            \/ \E t \in Succeeded(c) : results[i] = calls[c].tasks[t].result

\* an analyze call returned after one of its fetches was rejected, one of its analyses
\* threw or succeeded, and the other timeframe's result is in the map
C2_Witness ==
    \E c \in Calls :
        /\ calls[c].pc = "returned"
        /\ calls[c].method = "analyze"
        /\ Len(calls[c].tasks) = 2
        /\ Cardinality(Succeeded(c)) = 1
        /\ Len(calls[c].ret.results) = 1

C4_OverlapFetchedOnce ==
    \A c \in Calls :
        Began(c) =>
            \A key \in calls[c].history.inflight \ calls[c].history.stored : FetchesOf(c, key) = 0

(* C10: analyze throws exactly when no requested timeframe is recognised;  *)
(* the error is an AnalysisError with code INVALID_TIMEFRAMES, the symbol  *)
(* and no timeframe, and the step that throws makes no getCandles call and *)
(* leaves the entries and the recency order of the cache as they were.     *)
C10_InvalidTimeframes ==
    [][\A c \in Calls :
          (/\ calls'[c] # calls[c]
           /\ calls'[c].pc # "idle"
           /\ calls'[c].method = "analyze") =>
              /\ calls'[c].pc = "threw" <=>
                    \A i \in 1..Len(calls'[c].timeframes) : calls'[c].timeframes[i] \notin Recognised
              /\ calls'[c].pc = "threw" =>
                    /\ calls'[c].error = [name |-> "AnalysisError", code |-> "INVALID_TIMEFRAMES",
                                          timeframe |-> Undefined, symbol |-> calls'[c].symbol]
                    /\ calls'[c].missing = <<>>
                    /\ UNCHANGED <<cache, accessOrder, fetches>>]_vars

\* analyze has thrown for a request naming only an unrecognised token, over a cache
\* that holds an entry
C10_Witness ==
    \E c \in Calls :
        /\ calls[c].pc = "threw"
        /\ calls[c].method = "analyze"
        /\ calls[c].timeframes # <<>>
        /\ cache # EmptyCache

(* C11: an analyze call none of whose recognised timeframes is served from *)
(* the cache and all of whose fetches or analyses fail does not return a   *)
(* result: it throws one structured error that carries the symbol.         *)
C11_FullFailureThrows ==
    \A c \in Calls :
        (/\ Began(c)
         /\ ~Running(c)
         /\ calls[c].method = "analyze"
         /\ \E i \in 1..Len(calls[c].timeframes) : calls[c].timeframes[i] \in Recognised
         /\ calls[c].history.stored = {}
         /\ Succeeded(c) = {}) =>
            /\ calls[c].pc = "threw"
            /\ calls[c].error.symbol = calls[c].symbol

\* the recognised timeframes a call names, in the order of the request
RecognisedOf(c) == SelectSeq(calls[c].timeframes, LAMBDA tf : tf \in Recognised)

(* C12: an analyze call whose recognised timeframes are n distinct values, *)
(* none of them held by the cache, makes exactly n getCandles calls, one   *)
(* for each recognised timeframe and none for an unrecognised token; when  *)
(* none of them fails the returned map has exactly those n timeframes as   *)
(* keys.                                                                   *)
C12_OneFetchPerRecognisedTimeframe ==
    \A c \in Calls :
        (/\ Began(c)
         /\ calls[c].method = "analyze"
         /\ calls[c].pc # "threw"
         /\ calls[c].history.stored = {}
         /\ \A i, j \in 1..Len(RecognisedOf(c)) : RecognisedOf(c)[i] = RecognisedOf(c)[j] => i = j) =>
            /\ Len(calls[c].tasks) = Len(RecognisedOf(c))
            /\ \A i \in 1..Len(calls[c].missing) : calls[c].missing[i] \in Recognised
            /\ \A i \in 1..Len(RecognisedOf(c)) :
                  FetchesOf(c, generateKey(calls[c].symbol, RecognisedOf(c)[i])) = 1
            /\ (calls[c].pc = "returned" /\ Succeeded(c) = 1..Len(calls[c].tasks)) =>
                  /\ Len(calls[c].ret.results) = Len(RecognisedOf(c))
                  /\ {calls[c].ret.results[i].timeframe : i \in 1..Len(calls[c].ret.results)}
                        = Range(RecognisedOf(c))

\* analyze has returned one result for a request of a recognised timeframe and an
\* unrecognised token
C12_Witness ==
    \E c \in Calls :
        /\ calls[c].pc = "returned"
        /\ calls[c].method = "analyze"
        /\ Len(calls[c].timeframes) = 2
        /\ Len(RecognisedOf(c)) = 1
        /\ calls[c].history.stored = {}
        /\ Len(calls[c].tasks) = 1
        /\ Len(calls[c].ret.results) = 1

(***************************************************************************)
(* Properties of MomentumAnalyzer (AnalyzerSpec)                           *)
(***************************************************************************)
Within(x, low, high) == Ge(x, Num(low)) /\ Le(x, Num(high))

Returned(op) == lastOp.op = op /\ lastOp.ret # Null

(* C14: for every series of at least macdSlow + macdSignal candles,        *)
(* analyze returns a score within [-100, 100] and an rsi within [0, 100].  *)
C14_ScoreAndRsiInRange ==
    Returned("analyze") =>
        /\ Within(lastOp.ret.score, 0 - 100, 100)
        /\ Within(lastOp.ret.rsi, 0, 100)

(* C15: analyze throws exactly when the series is shorter than macdSlow +  *)
(* macdSignal (35 under the default configuration), whatever rsiPeriod and *)
(* volumeAvgPeriod are; the error is an AnalysisError with code            *)
(* INSUFFICIENT_DATA and the symbol and timeframe of the call; otherwise a *)
(* MomentumResult for that symbol and timeframe is returned.               *)
C15_InsufficientData ==
    lastOp.op = "analyze" =>
        LET cfg == mtfConfig.analyzerConfig
            candles == lastOp.args[3]
        IN /\ cfg = ANALYZER_DEFAULT_CONFIG => cfg.macdSlow + cfg.macdSignal = 35
           /\ lastOp.error # Null <=> Len(candles) < cfg.macdSlow + cfg.macdSignal
           /\ lastOp.error # Null =>
                 /\ lastOp.ret = Null
                 /\ lastOp.error = [name |-> "AnalysisError", code |-> "INSUFFICIENT_DATA",
                                    timeframe |-> lastOp.args[2], symbol |-> lastOp.args[1]]
           /\ lastOp.error = Null =>
                 /\ lastOp.ret # Null
                 /\ lastOp.ret.symbol = lastOp.args[1]
                 /\ lastOp.ret.timeframe = lastOp.args[2]
                 /\ lastOp.ret.metadata.candleCount = Len(candles)

\* analyze has thrown for 34 candles under the default configuration
C15_Witness ==
    /\ lastOp.op = "analyze"
    /\ mtfConfig.analyzerConfig = ANALYZER_DEFAULT_CONFIG
    /\ Len(lastOp.args[3]) = 34
    /\ lastOp.error # Null

\* the number is a fraction greater than the whole number k
Exceeds(x, k) == IsFinite(x) /\ x.n > k * x.d

\* the number is a fraction less than the whole number k
Below(x, k) == IsFinite(x) /\ x.n < k * x.d

(* C19: in every result of the analyzer the direction is bullish exactly   *)
(* when score > 15, bearish exactly when score < -15 and neutral           *)
(* otherwise; the strength is strong exactly when |score| > 60, moderate   *)
(* exactly when 30 < |score| <= 60 and weak otherwise; a neutral result is *)
(* weak.                                                                   *)
C19_DirectionAndStrengthFromScore ==
    (Returned("analyze") \/ Returned("calculateMomentum")) =>
        LET r == lastOp.ret
            big == Exceeds(r.score, 60) \/ Below(r.score, 0 - 60)
            mid == Exceeds(r.score, 30) \/ Below(r.score, 0 - 30)
        IN /\ r.direction = "bullish" <=> Exceeds(r.score, 15)
           /\ r.direction = "bearish" <=> Below(r.score, 0 - 15)
           /\ r.direction = "neutral" <=> (~Exceeds(r.score, 15) /\ ~Below(r.score, 0 - 15))
           /\ r.strength = "strong" <=> big
           /\ r.strength = "moderate" <=> (mid /\ ~big)
           /\ r.strength = "weak" <=> ~mid
           /\ r.direction = "neutral" => r.strength = "weak"

\* a result with a score of exactly 15, which is neutral and weak
C19_Witness ==
    /\ Returned("calculateMomentum")
    /\ lastOp.ret.score = Num(15)
    /\ lastOp.ret.direction = "neutral"
    /\ lastOp.ret.strength = "weak"

\* the analysis promise of the i-th missing timeframe of call c exists: its
\* callback ran up to its await, so its getCandles call was made
FetchStarted(c, i) == i \in 1..Len(calls[c].tasks)

(* C20: with the missing timeframes partitioned in input order into groups *)
(* of maxConcurrency, no getCandles call for a timeframe of group k+1 is   *)
(* started while a fetch-and-analyze operation of group k has not settled. *)
C20_GroupsStartInSequence ==
    \A c \in Calls :
        (Running(c) /\ calls[c].method = "analyze") =>
            LET chunks == chunkArray(Len(calls[c].missing), mtfConfig.maxConcurrency)
            IN \A k \in 1..(Len(chunks) - 1) :
                   (\E i \in chunks[k].first..chunks[k].last : calls[c].tasks[i] = Pending) =>
                       \A j \in chunks[k + 1].first..chunks[k + 1].last : ~FetchStarted(c, j)

(* C23: in every analyze call the timeframes served from the cache and    *)
(* the timeframes missing from it, which are the ones computed afresh, are *)
(* disjoint, a request that lists a timeframe twice included, with the     *)
(* clock free to advance between the cache lookups.                        *)
C23_CachedAndMissingDisjoint ==
    \A c \in Calls :
        calls[c].pc = "checking" => MapKeys(calls[c].cached) \cap Range(calls[c].missing) = {}

\* the keys of the entries that a step stored or replaced
Written == {key \in DOMAIN cache' : key \notin DOMAIN cache \/ cache'[key] # cache[key]}

\* call c is an analyze call that returns in this step
Returns(c) == calls[c].pc = "awaiting" /\ calls[c].method = "analyze" /\ calls'[c].pc = "returned"

C27_NoStaleWriteBack ==
    \A c \in Calls :
        (calls[c].pc = "returned" /\ calls[c].method = "analyze") =>
            \A key \in calls[c].history.invalidated : key \notin DOMAIN cache

\* call c is an analyze call awaiting its fetches
Awaiting(c) == Running(c) /\ calls[c].method = "analyze"

\* the keys of the timeframes call c fetches
FetchedKeys(c) == {generateKey(calls[c].symbol, calls[c].missing[i]) : i \in 1..Len(calls[c].missing)}

(* C21: if every getCandles call an analyze call started eventually        *)
(* settles, the call eventually returns or throws; and as long as one of   *)
(* them has not settled the call does not complete and writes none of its  *)
(* results to the cache.                                                   *)
C21_CompletesIffFetchesSettle ==
    /\ (\A c \in Calls : Awaiting(c) ~> (Awaiting(c) /\ Unsettled(c) = {}))
          => (\A c \in Calls : Awaiting(c) ~> (calls[c].pc \in {"returned", "threw"}))
    /\ [][\A c \in Calls :
             (Awaiting(c) /\ Unsettled(c) # {}) =>
                 /\ calls'[c].pc = "awaiting"
                 /\ \A key \in FetchedKeys(c) \cap DOMAIN cache' :
                       key \in DOMAIN cache /\ cache'[key] = cache[key]]_vars

\* an analyze call with two fetches returned after one resolved and one was rejected
C21_Witness ==
    \E c \in Calls :
        /\ calls[c].pc = "returned"
        /\ calls[c].method = "analyze"
        /\ Len(calls[c].tasks) = 2
        /\ Unsettled(c) = {}
        /\ Cardinality(Succeeded(c)) = 1

(***************************************************************************)
(* Properties of calculateAlignment and calculateOverallMomentum           *)
(* (AlignmentSpec)                                                         *)
(***************************************************************************)
Combined == lastOp.op = "combine"

SameDirection(results) == \A i, j \in 1..Len(results) : results[i].direction = results[j].direction

\* C13: for a non-empty result map whose results all report one direction and
\* an alignmentThreshold of at most 1, calculateAlignment yields an
\* alignmentScore of 100 and aligned = true.
C13_UnanimousIsAligned ==
    (/\ Combined
     /\ lastOp.args[1] # <<>>
     /\ SameDirection(lastOp.args[1])
     /\ Le(mtfConfig.alignmentThreshold, Num(1)))
    => /\ lastOp.ret.alignment.alignmentScore = Num(100)
       /\ lastOp.ret.alignment.aligned = TRUE

\* three neutral results under a threshold of exactly 1
C13_Witness ==
    /\ Combined
    /\ Len(lastOp.args[1]) = 3
    /\ \A i \in 1..3 : lastOp.args[1][i].direction = "neutral"
    /\ mtfConfig.alignmentThreshold = Num(1)
    /\ lastOp.ret.alignment.dominantDirection = "neutral"
    /\ lastOp.ret.alignment.aligned = TRUE

\* C17: for every combined result map, the empty one included, whose scores
\* lie in [-100, 100], the returned alignmentScore, weightedScore and
\* confluenceScore each lie in [0, 100].
C17_ScoresInRange ==
    (/\ Combined
     /\ \A i \in 1..Len(lastOp.args[1]) : Within(lastOp.args[1][i].score, 0 - 100, 100))
    => /\ Within(lastOp.ret.alignment.alignmentScore, 0, 100)
       /\ Within(lastOp.ret.alignment.weightedScore, 0, 100)
       /\ Within(lastOp.ret.confluenceScore, 0, 100)

\* three bullish results of score 100 reach a confluence score of exactly 100
C17_Witness ==
    /\ Combined
    /\ Len(lastOp.args[1]) = 3
    /\ \A i \in 1..3 : lastOp.args[1][i].direction = "bullish" /\ lastOp.args[1][i].score = Num(100)
    /\ lastOp.ret.confluenceScore = Num(100)
    /\ lastOp.ret.alignment.weightedScore = Num(100)

\* the accumulated weight of the results of one direction
RECURSIVE WeightOf(_, _)
WeightOf(results, dir) ==
    IF results = <<>> THEN 0
    ELSE (IF Head(results).direction = dir THEN TIMEFRAME_WEIGHT[Head(results).timeframe] ELSE 0)
         + WeightOf(Tail(results), dir)

\* C24 as stated: dominantDirection is bullish when the bullish weight exceeds
\* the bearish weight, bearish when the bearish weight exceeds the bullish
\* weight, neutral when the two tie, and neutral when the neutral results hold
\* more weight than either of the two.
C24_NeutralDominanceIsNeutral ==
    Combined =>
        LET bullish == WeightOf(lastOp.args[1], "bullish")
            bearish == WeightOf(lastOp.args[1], "bearish")
            neutral == WeightOf(lastOp.args[1], "neutral")
            dominant == lastOp.ret.alignment.dominantDirection
        IN /\ bullish > bearish => dominant = "bullish"
           /\ bearish > bullish => dominant = "bearish"
           /\ bullish = bearish => dominant = "neutral"
           /\ (neutral > bullish /\ neutral > bearish) => dominant = "neutral"

\* C24: dominantDirection is bullish when the bullish weight exceeds the
\* bearish weight, bearish when the bearish weight exceeds the bullish weight,
\* and neutral exactly when the two tie; the weight of the neutral results
\* plays no part.
C24_DominantByBullishAndBearishWeight ==
    Combined =>
        LET bullish == WeightOf(lastOp.args[1], "bullish")
            bearish == WeightOf(lastOp.args[1], "bearish")
        IN lastOp.ret.alignment.dominantDirection =
              IF bullish > bearish THEN "bullish" ELSE IF bearish > bullish THEN "bearish" ELSE "neutral"

\* the neutral results outweigh the bullish ones, the bullish ones the bearish
\* ones, and the dominant direction is bullish
C24_Witness ==
    /\ Combined
    /\ WeightOf(lastOp.args[1], "neutral") > WeightOf(lastOp.args[1], "bullish")
    /\ WeightOf(lastOp.args[1], "bullish") > WeightOf(lastOp.args[1], "bearish")
    /\ WeightOf(lastOp.args[1], "bearish") > 0
    /\ lastOp.ret.alignment.dominantDirection = "bullish"

\* the timeframes of the results that satisfy the test
TimeframesWhere(results, Test(_)) == {results[i].timeframe : i \in {j \in 1..Len(results) : Test(results[j])}}

\* C25: alignedTimeframes holds exactly the timeframes whose direction is the
\* dominant one, divergentTimeframes exactly those whose direction is not
\* neutral and differs from it; the two are disjoint, both hold keys of the
\* result map only, and the timeframes in neither are the neutral ones under a
\* dominant direction that is not neutral.
C25_AlignedAndDivergentPartition ==
    Combined =>
        LET results == lastOp.args[1]
            alignment == lastOp.ret.alignment
            dominant == alignment.dominantDirection
            aligned == Range(alignment.alignedTimeframes)
            divergent == Range(alignment.divergentTimeframes)
            keys == TimeframesWhere(results, LAMBDA r : TRUE)
        IN /\ aligned = TimeframesWhere(results, LAMBDA r : r.direction = dominant)
           /\ divergent = TimeframesWhere(results, LAMBDA r : r.direction # "neutral" /\ r.direction # dominant)
           /\ Len(alignment.alignedTimeframes) = Cardinality(aligned)
           /\ Len(alignment.divergentTimeframes) = Cardinality(divergent)
           /\ aligned \cap divergent = {}
           /\ aligned \subseteq keys
           /\ divergent \subseteq keys
           /\ keys \ (aligned \cup divergent) =
                 IF dominant = "neutral" THEN {}
                 ELSE TimeframesWhere(results, LAMBDA r : r.direction = "neutral")

\* one aligned, one divergent and one neutral timeframe that is in neither list
C25_Witness ==
    /\ Combined
    /\ Len(lastOp.args[1]) = 3
    /\ Len(lastOp.ret.alignment.alignedTimeframes) = 1
    /\ Len(lastOp.ret.alignment.divergentTimeframes) = 1
    /\ \E i \in 1..3 : lastOp.args[1][i].direction = "neutral"

\* the sum of score x weight over the results, for whole-number scores
RECURSIVE WeightedScoreSum(_)
WeightedScoreSum(results) ==
    IF results = <<>> THEN 0
    ELSE Head(results).score.n * TIMEFRAME_WEIGHT[Head(results).timeframe] + WeightedScoreSum(Tail(results))

RECURSIVE TotalWeight(_)
TotalWeight(results) ==
    IF results = <<>> THEN 0 ELSE TIMEFRAME_WEIGHT[Head(results).timeframe] + TotalWeight(Tail(results))

\* C26: for a non-empty result map, overallStrength is strong exactly when
\* aligned holds and the weighted average score is beyond 50 in absolute
\* value, moderate exactly when it is not strong and aligned holds or the
\* absolute value is beyond 30, weak otherwise; overallDirection is bullish iff
\* the weighted average is above 15, bearish iff below -15, else neutral.
C26_OverallStrengthAndDirection ==
    (Combined /\ lastOp.args[1] # <<>>) =>
        LET sum == WeightedScoreSum(lastOp.args[1])
            total == TotalWeight(lastOp.args[1])
            aligned == lastOp.ret.alignment.aligned
        IN /\ lastOp.ret.overallStrength =
                 IF aligned /\ Abs(sum) > 50 * total THEN "strong"
                 ELSE IF aligned \/ Abs(sum) > 30 * total THEN "moderate"
                 ELSE "weak"
           /\ lastOp.ret.overallDirection =
                 IF sum > 15 * total THEN "bullish"
                 ELSE IF sum < (0 - 15) * total THEN "bearish"
                 ELSE "neutral"

\* results that are not aligned, with a weighted average between -50 and -30:
\* moderate and bearish
C26_Witness ==
    /\ Combined
    /\ lastOp.ret.alignment.aligned = FALSE
    /\ Abs(WeightedScoreSum(lastOp.args[1])) > 30 * TotalWeight(lastOp.args[1])
    /\ Abs(WeightedScoreSum(lastOp.args[1])) <= 50 * TotalWeight(lastOp.args[1])
    /\ lastOp.ret.overallStrength = "moderate"
    /\ lastOp.ret.overallDirection = "bearish"

\* a result as MomentumAnalyzer makes it: its direction is the one its score gives
FromAnalyzer(r) == r.direction = direction(r.score)

\* C30: when every result's direction is the one its score gives,
\* overallDirection and alignment.dominantDirection are never one bullish
\* and the other bearish.
C30_OverallNeverOppositeToDominant ==
    (Combined /\ \A i \in 1..Len(lastOp.args[1]) : FromAnalyzer(lastOp.args[1][i])) =>
        /\ ~(lastOp.ret.overallDirection = "bullish" /\ lastOp.ret.alignment.dominantDirection = "bearish")
        /\ ~(lastOp.ret.overallDirection = "bearish" /\ lastOp.ret.alignment.dominantDirection = "bullish")

====
